---- MODULE Spec2Model ----
(***************************************************************************)
(* Model of the components of web-of-phyngs:                               *)
(*   - the geometric primitive registry (geometry/primitives.py) and the   *)
(*     TriSurface aggregate and the Box of geometry/manipulator.py;        *)
(*   - the boundary-condition dictionary codec                             *)
(*     (openfoam/boundaries/boundary_conditions.py, boundary_types.py);    *)
(*   - the blockMesh dictionary (openfoam/system/blockmesh.py);            *)
(*   - the OpenFOAM interface, its solver threads and the probe parser     *)
(*     (openfoam/interface.py, openfoam/probes/probes.py);                 *)
(*   - the conjugate heat transfer case (case_base.py, cht_room.py).       *)
(* PointsSpec, LinesSpec and ShapesSpec are state machines of the          *)
(* registry, ContourSpec the one of boxes and surfaces constructed on it,  *)
(* BoxSpec the one of Box.cut_surface, BCSpec the one of a single field    *)
(* file and its BoundaryConditionBase object, ParseSpec the one of its     *)
(* construction, LatestSpec the one of its latest snapshot, FilesSpec the  *)
(* one of two such objects on two field files, VariantSpec the one of the  *)
(* construction of a boundary variant, MeshSpec the one of a blockMesh     *)
(* dictionary, InterfaceSpec the one of the interface with its threads     *)
(* (InterfaceFairSpec with every thread scheduled), CaseSpec the one of    *)
(* a case and its objects.                                                 *)
(***************************************************************************)
EXTENDS Integers, Sequences, FiniteSets, TLC

VARIABLES
    Point,      \* class attributes of Point: _locations, _numbers, _current_number, _inst_number
    points,     \* Point._instances: per instance its coords and num
    Line,       \* class attributes of Line: _point_pairs, _numbers, _current_number, _inst_number, _inverse
    lines,      \* Line._instances: per instance its points, num, opposite
    Loop,       \* class attributes of Loop: _lines, _numbers, _current_number, _inst_number
    loops,      \* Loop._instances: per instance its lines, line_sequence, num
    Surface,    \* class attributes of Surface: _loops, _numbers, _current_number, _inst_number
    surfaces,   \* Surface._instances: per instance its loops, num
    moves,      \* number of rotate/translate calls made so far (bounds the run)
    call,       \* the last call made: operation, arguments, returned instance, exception
    file,       \* the lines of the field file on disk
    initial,    \* BoundaryConditionBase.initial: name -> variant
    attrs,      \* the boundary entries of BoundaryConditionBase.__dict__: name -> variant
    file_lines, \* BoundaryConditionBase._file_lines: name -> line count
    bcall,      \* the last codec call: operation, arguments, exception
    latest,     \* BoundaryConditionBase.latest: name -> the __dict__ of the variant
    latest_timestep,  \* BoundaryConditionBase.latest_timestep
    filepath_latest,  \* the time step in BoundaryConditionBase._filepath_latest, NoPath for ''
    results,    \* the result-time files of the field: time step -> lines, <<>> for no file
    edits,      \* number of edits of latest made so far (bounds the run)
    ctor,       \* a construction of a boundary variant: its arguments, the object, the exception
    box,        \* a Box and a surface to cut from it: the faces' loops, the exception
    blocks,     \* Block._vertices and, per instance of Block, its cells_in_direction
    block_mesh, \* a BlockMeshDict: _mesh_quality, blocks, block sizes, quality coefficients
    interface,  \* an OpenFoamInterface: blocking, parallel, running, _solver, _solver_mutex, ...
    solvers,    \* the solver routines started so far: position, thread or process
    parsers,    \* the ProbeParser objects made so far: position, running, _mutex
    main,       \* the main thread: its call, its position in it, the exception, the last call ended
    phyng,      \* a phyng: its class, whether _fields is set, its attribute
    probes,     \* whether Probe._instances holds a probe
    other_bc,   \* a second BoundaryConditionBase object, on another field file
    shapes,     \* the boxes and surfaces constructed so far: type and loops
    room        \* the ChtRoom case: its objects, initialized, the solver starts

geoVars == <<Point, points, Line, lines, Loop, loops, Surface, surfaces, moves, call>>
bcVars == <<file, initial, attrs, file_lines, bcall>>
ltVars == <<latest, latest_timestep, filepath_latest, results, edits>>
vtVars == <<ctor>>
bxVars == <<box>>
bmVars == <<blocks, block_mesh>>
ifVars == <<interface, solvers, parsers, main, phyng, probes>>
flVars == <<other_bc>>
shVars == <<shapes>>
rmVars == <<room>>
appVars == <<bmVars, ifVars, flVars, shVars, rmVars>>
vars == <<geoVars, bcVars, ltVars, vtVars, bxVars, appVars>>

-----------------------------------------------------------------------------
(* Bounds of the model. *)
MaxPoints == 3
MaxLines == 2
MaxLoops == 2
MaxSurfaces == 2
MaxSurfaceLoops == 2
MaxLoopLen == 2
MaxMoves == 2
MaxShapeMoves == 1

\* Coordinates handed to Point(x, y, z).
NewCoords == {<<0, 0, 0>>, <<1, 0, 0>>, <<1, 1, 0>>}
\* Offsets handed to translate.
Offsets == {<<1, 0, 0>>}
\* Rotation angles (degrees) and centers handed to rotate.
Rotations == {<<0, 0, 90>>, <<90, 90, 0>>}
Centers == {<<0, 0, 0>>}

-----------------------------------------------------------------------------
(* Helpers standing for Python list operations. *)

\* list.index(x), 1-based; 0 when x is not in the list (Python raises ValueError)
IndexOf(s, x) ==
    IF \E i \in 1..Len(s) : s[i] = x
    THEN CHOOSE i \in 1..Len(s) : s[i] = x /\ \A j \in 1..(i - 1) : s[j] # x
    ELSE 0

SeqSet(s) == {s[i] : i \in 1..Len(s)}

RECURSIVE Flatten(_)
Flatten(ss) == IF ss = <<>> THEN <<>> ELSE Head(ss) \o Flatten(Tail(ss))

-----------------------------------------------------------------------------
(* Point *)

\* Point.__new__ followed by Point.__init__, for Point(x, y, z) with c = [x, y, z].
\* The result is the class state, the instance list and the returned instance.
PointCreate(P, ps, c) ==
    IF IndexOf(P.locations, c) # 0
    THEN LET idx == IndexOf(P.locations, c) - 1        \* cls._locations.index(coords)
             P1 == [P EXCEPT !.inst_number = idx]    \* cls._inst_number = idx
             ret == idx + 1                          \* cls._instances[idx]
         IN [cls |-> P1,
             insts |-> [ps EXCEPT ![ret] = [coords |-> c, num |-> P1.inst_number]],
             ret |-> ret, hit |-> TRUE]
    ELSE LET n == P.current_number + 1
             P1 == [locations |-> Append(P.locations, c),
                    numbers |-> Append(P.numbers, n),
                    current_number |-> n,
                    inst_number |-> n]
         IN [cls |-> P1,
             insts |-> Append(ps, [coords |-> c, num |-> P1.inst_number]),
             ret |-> Len(ps) + 1, hit |-> FALSE]

\* math.cos / math.sin of an angle in degrees, for the multiples of 90 used here;
\* the results are rounded to 5 decimals by the code, so they are exact.
Cos(a) == CASE a = 0 -> 1 [] a = 90 -> 0 [] a = 180 -> -1 [] a = 270 -> 0
Sin(a) == CASE a = 0 -> 0 [] a = 90 -> 1 [] a = 180 -> 0 [] a = 270 -> -1

RotX(v, a, c) ==
    LET x == v[1] - c[1]  y == v[2] - c[2]  z == v[3] - c[3]
    IN <<x + c[1], (y * Cos(a) - z * Sin(a)) + c[2], (y * Sin(a) + z * Cos(a)) + c[3]>>
RotY(v, a, c) ==
    LET x == v[1] - c[1]  y == v[2] - c[2]  z == v[3] - c[3]
    IN <<(x * Cos(a) + z * Sin(a)) + c[1], y + c[2], (z * Cos(a) - x * Sin(a)) + c[3]>>
RotZ(v, a, c) ==
    LET x == v[1] - c[1]  y == v[2] - c[2]  z == v[3] - c[3]
    IN <<(x * Cos(a) - y * Sin(a)) + c[1], (x * Sin(a) + y * Cos(a)) + c[2], z + c[3]>>

\* The coordinates Point.rotate computes: X, then Y, then Z, each only for a
\* non-zero angle and each from the already rotated coordinates.
RotatedCoords(v, r, c) ==
    LET v1 == IF r[1] # 0 THEN RotX(v, r[1], c) ELSE v
        v2 == IF r[2] # 0 THEN RotY(v1, r[2], c) ELSE v1
    IN IF r[3] # 0 THEN RotZ(v2, r[3], c) ELSE v2

\* The coordinates Point.translate computes.
TranslatedCoords(v, d) == <<v[1] + d[1], v[2] + d[2], v[3] + d[3]>>

\* Point.rotate on instance p. st = [coords, locs, err]: the instances' coordinates,
\* Point._locations and the exception raised so far.
PointRotate(st, p, r, c) ==
    LET old == st.coords[p]
        new == RotatedCoords(old, r, c)
        i == IndexOf(st.locs, old)
    IN IF i = 0
       THEN [st EXCEPT !.coords[p] = new, !.err = "ValueError"]
       ELSE [st EXCEPT !.coords[p] = new, !.locs[i] = new]

\* Point.translate on instance p.
PointTranslate(st, p, d) ==
    LET old == st.coords[p]
        new == TranslatedCoords(old, d)
        i == IndexOf(st.locs, old)
    IN IF i = 0
       THEN [st EXCEPT !.coords[p] = new, !.err = "ValueError"]
       ELSE [st EXCEPT !.coords[p] = new, !.locs[i] = d]

\* One transform t = [kind, r, c, d] applied to instance p.
PointMove(st, p, t) ==
    IF t.kind = "rotate" THEN PointRotate(st, p, t.r, t.c) ELSE PointTranslate(st, p, t.d)

\* The transform applied to the points of ps one after the other, as the loops
\* of Line/Loop/Surface/TriSurface do; an exception ends the call.
RECURSIVE MoveAll(_, _, _)
MoveAll(st, ps, t) ==
    IF ps = <<>> \/ st.err # "none" THEN st
    ELSE MoveAll(PointMove(st, Head(ps), t), Tail(ps), t)

-----------------------------------------------------------------------------
(* Line *)

\* The index of the first registered pair both of whose points are among the
\* requested ones (the loop of Line.__new__); 0 when there is none.
LineLookup(L, p, q) ==
    LET match(i) == L.point_pairs[i][1] \in {p, q} /\ L.point_pairs[i][2] \in {p, q}
    IN IF \E i \in 1..Len(L.point_pairs) : match(i)
       THEN CHOOSE i \in 1..Len(L.point_pairs) : match(i) /\ \A j \in 1..(i - 1) : ~match(j)
       ELSE 0

\* Line.__new__ for Line(p, q): the class state, the instance list (a new
\* instance has no attributes yet) and the returned instance.
LineNew(L, ls, p, q) ==
    LET idx == LineLookup(L, p, q)
    IN IF idx # 0
       THEN [cls |-> [L EXCEPT !.inverse = TRUE, !.inst_number = ls[idx].num],
             insts |-> ls, ret |-> idx, hit |-> TRUE]
       ELSE LET n == L.current_number + 1
            IN [cls |-> [point_pairs |-> Append(L.point_pairs, <<p, q>>),
                         numbers |-> Append(L.numbers, n),
                         current_number |-> n,
                         inst_number |-> n,
                         inverse |-> L.inverse],
                insts |-> Append(ls, [points |-> <<>>, num |-> 0, opposite |-> FALSE]),
                ret |-> Len(ls) + 1, hit |-> FALSE]

\* Line.__init__ on the instance Line.__new__ returned.
LineInit(L, ls, self, p, q) ==
    LET k == CHOOSE k \in 1..Len(L.numbers) :
                 L.numbers[k] = L.inst_number /\ \A j \in 1..(k - 1) : L.numbers[j] # L.inst_number
        pts == IF L.inverse THEN L.point_pairs[k] ELSE <<p, q>>
    IN [cls |-> [L EXCEPT !.inverse = FALSE],
        insts |-> [ls EXCEPT ![self] = [points |-> pts, num |-> L.inst_number, opposite |-> FALSE]]]

\* Line(p, q): __new__, then __init__. inverse is the class flag as __new__ left it.
LineCreate(L, ls, p, q) ==
    LET n == LineNew(L, ls, p, q)
        i == LineInit(n.cls, n.insts, n.ret, p, q)
    IN [cls |-> i.cls, insts |-> i.insts, ret |-> n.ret, hit |-> n.hit, inverse |-> n.cls.inverse]

\* Line.__neg__ on every negated element of a list expression [l1, -l2, ...];
\* sl is the sequence of <<line, negated>>.
RECURSIVE NegateAll(_, _)
NegateAll(ls, sl) ==
    IF sl = <<>> THEN ls
    ELSE NegateAll(IF Head(sl)[2] THEN [ls EXCEPT ![Head(sl)[1]].opposite = TRUE] ELSE ls, Tail(sl))

\* [line() for line in lines]: Line.__call__ on each line in turn. The result
\* is the instance list and the signed numbers.
RECURSIVE CallAll(_, _, _)
CallAll(ls, ids, acc) ==
    IF ids = <<>> THEN [insts |-> ls, seq |-> acc]
    ELSE LET l == Head(ids)
         IN IF ls[l].opposite
            THEN CallAll([ls EXCEPT ![l].opposite = FALSE], Tail(ids), Append(acc, -ls[l].num))
            ELSE CallAll(ls, Tail(ids), Append(acc, ls[l].num))

-----------------------------------------------------------------------------
(* Loop *)

\* Loop.__new__ and Loop.__init__ for Loop(ids), ids the list of Line objects.
\* The result also carries the Line instances, whose opposite flags
\* Loop.__init__ consumes.
LoopCreate(O, os, ls, ids) ==
    LET idx == IndexOf(O.lines, ids)                 \* lines == used_lines
        n == O.current_number + 1
        O1 == IF idx # 0
              THEN [O EXCEPT !.inst_number = os[idx].num]
              ELSE [lines |-> Append(O.lines, ids),
                    numbers |-> Append(O.numbers, n),
                    current_number |-> n,
                    inst_number |-> n]
        ret == IF idx # 0 THEN idx ELSE Len(os) + 1
        c == CallAll(ls, ids, <<>>)
        inst == [lines |-> ids, line_sequence |-> c.seq, num |-> O1.inst_number]
    IN [cls |-> O1,
        insts |-> IF idx # 0 THEN [os EXCEPT ![ret] = inst] ELSE Append(os, inst),
        lineinsts |-> c.insts,
        ret |-> ret, hit |-> idx # 0]

-----------------------------------------------------------------------------
(* Surface *)

\* Surface.__new__ and Surface.__init__ for Surface(loop).
SurfaceCreate(S, ss, loop) ==
    LET idx == IndexOf(S.loops, loop)                \* loop == used_loops
        n == S.current_number + 1
        S1 == IF idx # 0
              THEN [S EXCEPT !.inst_number = ss[idx].num]
              ELSE [loops |-> Append(S.loops, loop),
                    numbers |-> Append(S.numbers, n),
                    current_number |-> n,
                    inst_number |-> n]
        ret == IF idx # 0 THEN idx ELSE Len(ss) + 1
        inst == [loops |-> <<loop>>, num |-> S1.inst_number]
    IN [cls |-> S1,
        insts |-> IF idx # 0 THEN [ss EXCEPT ![ret] = inst] ELSE Append(ss, inst),
        ret |-> ret, hit |-> idx # 0]

\* Surface.cut: the other surface's loops are appended to this surface's.
SurfaceCut(ss, self, other) ==
    [ss EXCEPT ![self].loops = ss[self].loops \o ss[other].loops]

-----------------------------------------------------------------------------
(* The points a transform visits, in the order it visits them. *)

\* Line.rotate / Line.translate: for point in self.points
LinePoints(l) == lines[l].points
\* Loop.rotate / Loop.translate: for line in self.lines: line.rotate(...)
LoopPoints(o) == Flatten([i \in 1..Len(loops[o].lines) |-> LinePoints(loops[o].lines[i])])
\* Surface.rotate / Surface.translate: for loop in self.loops: loop.rotate(...)
SurfacePoints(s) == Flatten([i \in 1..Len(surfaces[s].loops) |-> LoopPoints(surfaces[s].loops[i])])

\* TriSurface.rotate / TriSurface.translate over the faces fs: per face, the
\* set of its points minus the points already moved. A Python set is iterated
\* in hash order, so the order inside a face is any order: ord ranks the points.
RECURSIVE SortBy(_, _)
SortBy(S, ord) ==
    IF S = {} THEN <<>>
    ELSE LET m == CHOOSE m \in S : \A x \in S : ord[m] <= ord[x]
         IN <<m>> \o SortBy(S \ {m}, ord)

RECURSIVE TriSurfacePoints(_, _, _)
TriSurfacePoints(fs, done, ord) ==
    IF fs = <<>> THEN <<>>
    ELSE LET face_points == SeqSet(SurfacePoints(Head(fs))) \ done
         IN SortBy(face_points, ord) \o TriSurfacePoints(Tail(fs), done \cup face_points, ord)

-----------------------------------------------------------------------------
(* The registry's state machine. *)

NoCall == [op |-> "none", target |-> 0, arg |-> <<>>, ret |-> 0, hit |-> FALSE,
           inverse |-> FALSE, err |-> "none"]

GeoStart ==
    /\ Point = [locations |-> <<>>, numbers |-> <<>>, current_number |-> 0, inst_number |-> 0]
    /\ points = <<>>
    /\ Line = [point_pairs |-> <<>>, numbers |-> <<>>, current_number |-> 0, inst_number |-> 0,
               inverse |-> FALSE]
    /\ lines = <<>>
    /\ Loop = [lines |-> <<>>, numbers |-> <<>>, current_number |-> 0, inst_number |-> 0]
    /\ loops = <<>>
    /\ Surface = [loops |-> <<>>, numbers |-> <<>>, current_number |-> 0, inst_number |-> 0]
    /\ surfaces = <<>>
    /\ moves = 0
    /\ call = NoCall

\* Point(x, y, z)
NewPoint ==
    \E c \in NewCoords :
        LET r == PointCreate(Point, points, c)
        IN /\ Len(r.insts) <= MaxPoints
           /\ Point' = r.cls
           /\ points' = r.insts
           /\ call' = [NoCall EXCEPT !.op = "Point", !.arg = c, !.ret = r.ret, !.hit = r.hit]
           /\ UNCHANGED <<appVars, bcVars, vtVars, bxVars, ltVars, Line, lines, Loop, loops, Surface, surfaces, moves>>

\* Line(p1, p2)
NewLine ==
    \E p, q \in 1..Len(points) :
        /\ p # q
        /\ LET r == LineCreate(Line, lines, p, q)
           IN /\ Len(r.insts) <= MaxLines
              /\ Line' = r.cls
              /\ lines' = r.insts
              /\ call' = [NoCall EXCEPT !.op = "Line", !.arg = <<p, q>>, !.ret = r.ret,
                                        !.hit = r.hit, !.inverse = r.inverse]
              /\ UNCHANGED <<appVars, bcVars, vtVars, bxVars, ltVars, Point, points, Loop, loops, Surface, surfaces, moves>>

\* The lists [l1, -l2, ...] of distinct lines handed to Loop.
SignedLists ==
    LET Elems == (1..Len(lines)) \X BOOLEAN
    IN {sl \in UNION {[1..n -> Elems] : n \in 2..MaxLoopLen} :
           \A i, j \in 1..Len(sl) : i # j => sl[i][1] # sl[j][1]}

\* Loop([l1, -l2, ...])
NewLoop ==
    \E sl \in SignedLists :
        LET ids == [i \in 1..Len(sl) |-> sl[i][1]]
            r == LoopCreate(Loop, loops, NegateAll(lines, sl), ids)
        IN /\ Len(r.insts) <= MaxLoops
           /\ Loop' = r.cls
           /\ loops' = r.insts
           /\ lines' = r.lineinsts
           /\ call' = [NoCall EXCEPT !.op = "Loop", !.arg = sl, !.ret = r.ret, !.hit = r.hit]
           /\ UNCHANGED <<appVars, bcVars, vtVars, bxVars, ltVars, Point, points, Line, Surface, surfaces, moves>>

\* Surface(loop)
NewSurface ==
    \E o \in 1..Len(loops) :
        LET r == SurfaceCreate(Surface, surfaces, o)
        IN /\ Len(r.insts) <= MaxSurfaces
           /\ Surface' = r.cls
           /\ surfaces' = r.insts
           /\ call' = [NoCall EXCEPT !.op = "Surface", !.arg = o, !.ret = r.ret, !.hit = r.hit]
           /\ UNCHANGED <<appVars, bcVars, vtVars, bxVars, ltVars, Point, points, Line, lines, Loop, loops, moves>>

\* surface.cut(other)
Cut ==
    \E s, o \in 1..Len(surfaces) :
        /\ s # o
        /\ Len(surfaces[s].loops) + Len(surfaces[o].loops) <= MaxSurfaceLoops
        /\ surfaces' = SurfaceCut(surfaces, s, o)
        /\ call' = [NoCall EXCEPT !.op = "cut", !.target = s, !.arg = o]
        /\ UNCHANGED <<appVars, bcVars, vtVars, bxVars, ltVars, Point, points, Line, lines, Loop, loops, Surface, moves>>

Transforms ==
    {[kind |-> "rotate", r |-> r, c |-> c, d |-> <<0, 0, 0>>] : r \in Rotations, c \in Centers}
    \cup {[kind |-> "translate", r |-> <<0, 0, 0>>, c |-> <<0, 0, 0>>, d |-> d] : d \in Offsets}

\* A rotate or translate call that visits the points ps in that order.
Move(on, target, ps, t, limit) ==
    LET st0 == [coords |-> [i \in 1..Len(points) |-> points[i].coords],
                locs |-> Point.locations, err |-> "none"]
        st == MoveAll(st0, ps, t)
    IN /\ moves < limit
       /\ moves' = moves + 1
       /\ points' = [i \in 1..Len(points) |-> [points[i] EXCEPT !.coords = st.coords[i]]]
       /\ Point' = [Point EXCEPT !.locations = st.locs]
       /\ call' = [NoCall EXCEPT !.op = t.kind, !.target = <<on, target>>, !.arg = t,
                                 !.err = st.err]
       /\ UNCHANGED <<appVars, bcVars, vtVars, bxVars, ltVars, Line, lines, Loop, loops, Surface, surfaces>>

\* Point.rotate, Point.translate
MovePoint == \E p \in 1..Len(points), t \in Transforms : Move("Point", p, <<p>>, t, MaxMoves)
\* Line.rotate, Line.translate
MoveLine == \E l \in 1..Len(lines), t \in Transforms : Move("Line", l, LinePoints(l), t, MaxShapeMoves)
\* Loop.rotate, Loop.translate
MoveLoop == \E o \in 1..Len(loops), t \in Transforms : Move("Loop", o, LoopPoints(o), t, MaxShapeMoves)
\* Surface.rotate, Surface.translate
MoveSurface ==
    \E s \in 1..Len(surfaces), t \in Transforms : Move("Surface", s, SurfacePoints(s), t, MaxShapeMoves)

\* The face lists of a TriSurface (Box, STL): the registered surfaces, each once.
FaceLists ==
    {fs \in UNION {[1..n -> 1..Len(surfaces)] : n \in 1..Len(surfaces)} :
        \A i, j \in 1..Len(fs) : i < j => fs[i] < fs[j]}
\* The orders a set of points can be iterated in.
Orders == {ord \in [1..Len(points) -> 1..Len(points)] :
              \A i, j \in 1..Len(points) : i # j => ord[i] # ord[j]}

\* TriSurface.rotate, TriSurface.translate
MoveTriSurface ==
    \E fs \in FaceLists, ord \in Orders, t \in Transforms :
        Move("TriSurface", fs, TriSurfacePoints(fs, {}, ord), t, MaxShapeMoves)

-----------------------------------------------------------------------------
(* The boundary-condition file codec (BoundaryConditionBase). *)

\* A file is the sequence of its lines. A line is [k, n, v, u, f]:
\*   k  what the codec's patterns make of the line: "text" (matches nothing),
\*      "comment" (starts with //), "bf" (contains boundaryField), "open" ({),
\*      "close" (contains }), "blank" (the line "\n"), "name" (name_pattern),
\*      "type" (type_pattern), "param" (parameter_pattern), "next" (contains
\*      the placeholder);
\*   n  the boundary name of a name line, the attribute name of a param line;
\*   v  the type of a type line, the value token of a param line;
\*   u  whether a param line carries the word uniform;
\*   f  the line's spacing: "std" as the codec writes it, "alt" any other.
Ln(k, n, v, u, f) == [k |-> k, n |-> n, v |-> v, u |-> u, f |-> f]

BOUNDARY_NEXT_PLACEHOLDER == "// next"
NextLine == Ln("next", "", BOUNDARY_NEXT_PLACEHOLDER, FALSE, "std")
BlankLine == Ln("blank", "", "", FALSE, "std")

GEOMETRIC_BOUNDARY_TYPES == {"empty", "processor", "symmetryPlane", "wedge"}
GENERAL_BOUNDARY_TYPES ==
    {"fixedValue", "fixedGradient", "mixed", "codedFixedValue", "uniformFixedValue", "zeroGradient",
     "calculated"}
INLET_BOUNDARY_TYPES ==
    {"outletInlet", "flowRateInletVelocity", "turbulentDigitalFilterInlet", "turbulentDFSEMInlet",
     "fanPressure", "turbulentIntensityKineticEnergyInlet",
     "turbulentMixingLengthDissipationRateInlet", "turbulentMixingLengthFrequencyInlet",
     "atmBoundaryLayerInletEpsilon", "atmBoundaryLayerInletK", "atmBoundaryLayerInletOmega",
     "atmBoundaryLayerInletVelocity", "atmBoundaryLayer"}
OUTLET_BOUNDARY_TYPES ==
    {"inletOutlet", "pressureInletOutletVelocity", "fanPressure", "totalPressure", "totalTemperature"}
WALL_BOUNDARY_TYPES ==
    {"noSlip", "translatingWallVelocity", "movingWallVelocity", "atmTurbulentHeatFluxTemperature",
     "atmAlphatkWallFunction", "atmEpsilonWallFunction", "atmNutkWallFunction",
     "atmNutUWallFunction", "atmNutWallFunction", "atmOmegaWallFunction", "epsilonWallFunction",
     "kLowReWallFunction", "kqRWallFunction", "nutkRoughWallFunction", "nutkWallFunction",
     "nutLowReWallFunction", "nutUBlendedWallFunction", "nutURoughWallFunction",
     "nutUSpaldingWallFunction", "nutUTabulatedWallFunction", "nutUWallFunction",
     "nutWallFunction", "omegaWallFunction", "compressible::alphatWallFunction",
     "compressible::epsilonWallFunction", "fixedFluxPressure"}
COUPLED_BOUNDARY_TYPES ==
    {"cyclicAMI", "cyclic", "fan", "compressible::turbulentTemperatureCoupledBaffleMixed"}

\* A boundary object: its type, its value attribute ("" when it has none) and
\* is_uniform. NoneVariant stands for None.
NoneVariant == [type |-> "", value |-> "", uniform |-> FALSE]

\* Dictionaries keyed by boundary name.
EmptyMap == [x \in {} |-> NoneVariant]
Put(m, key, val) == [x \in DOMAIN m \cup {key} |-> IF x = key THEN val ELSE m[x]]
Drop(m, key) == [x \in DOMAIN m \ {key} |-> m[x]]

\* _get_class_by_boundary_type: the class for a type name, "" for the ValueError.
GetClassByBoundaryType(t) ==
    IF t \in GEOMETRIC_BOUNDARY_TYPES THEN "GeometricBoundary"
    ELSE IF t \in GENERAL_BOUNDARY_TYPES THEN "GeneralBoundary"
    ELSE IF t \in INLET_BOUNDARY_TYPES THEN "InletBoundary"
    ELSE IF t \in OUTLET_BOUNDARY_TYPES THEN "OutletBoundary"
    ELSE IF t \in WALL_BOUNDARY_TYPES THEN "WallBoundary"
    ELSE IF t \in COUPLED_BOUNDARY_TYPES THEN "CoupledBoundary"
    ELSE ""

\* GeneralBoundary(boundary_type, value=..., is_uniform=...); value "" is None.
GeneralBoundary(t, value, is_uniform) ==
    IF t \in {"fixedValue", "calculated"}
    THEN IF value # ""
         THEN [err |-> "none", obj |-> [type |-> t, value |-> value, uniform |-> is_uniform]]
         ELSE [err |-> "ValueError", obj |-> NoneVariant]
    ELSE [err |-> "none", obj |-> [type |-> t, value |-> "", uniform |-> FALSE]]

\* What the parser stores for a value token: float(token) for a token of
\* digits only, printed back with a decimal point; the token itself otherwise.
ParsedValue(tok) == IF tok = "5" THEN "5.0" ELSE tok

\* BoundaryBase.__str__ after _add_boundary_to_file has indented it and put
\* the name in front: the lines of the block of boundary b under name n.
Render(n, b) ==
    <<Ln("name", n, "", FALSE, "std"), Ln("open", "", "", FALSE, "std"),
      Ln("type", "", b.type, FALSE, "std")>>
    \o (IF b.value # "" THEN <<Ln("param", "value", b.value, b.uniform, "std")>> ELSE <<>>)
    \o <<Ln("close", "", "", FALSE, "std")>>

\* The name under which a boundary is written to the file.
FileName(name) == IF name = "other_boundaries" THEN ".*" ELSE name

\* _add_boundary_to_file(name) on the lines f, with initial[name] = b and
\* _file_lines = fl. The result is the lines written, _file_lines and the error.
RECURSIVE AddScan(_, _, _)
AddScan(f, idx, block) ==
    IF idx > Len(f) THEN <<>>
    ELSE (IF f[idx].k = "next"
          THEN (IF f[IF idx = 1 THEN Len(f) ELSE idx - 1].k # "blank"
                THEN <<BlankLine>> ELSE <<>>) \o block
          ELSE <<>>)
         \o <<f[idx]>> \o AddScan(f, idx + 1, block)

AddBoundaryToFile(f, fl, name, b) ==
    IF b = NoneVariant THEN [file |-> f, file_lines |-> fl, err |-> "none"]
    ELSE LET block == Render(FileName(name), b)
             placeholder_found == \E i \in 1..Len(f) : f[i].k = "next"
             fl1 == IF placeholder_found THEN Put(fl, FileName(name), Len(block) - 1) ELSE fl
         IN IF placeholder_found
            THEN [file |-> AddScan(f, 1, block), file_lines |-> fl1, err |-> "none"]
            ELSE [file |-> f, file_lines |-> fl1, err |-> "Exception"]

\* _remove_boundary_from_file(name) on the lines f: the line before the first
\* line holding the name is popped, then _file_lines[name] + 1 lines are
\* skipped from the name line on. The boundary names of the model are no
\* suffix of one another, so only the name's own name line holds "name\n".
RemoveBoundaryFromFile(f, fl, name) ==
    IF name \notin DOMAIN fl THEN [file |-> f, err |-> "KeyError"]
    ELSE LET num_of_lines == fl[name] + 1
             hits == {i \in 1..Len(f) : f[i].k = "name" /\ f[i].n = name}
         IN IF hits = {} THEN [file |-> f, err |-> "none"]
            ELSE LET i == CHOOSE i \in hits : \A j \in hits : i <= j
                 IN IF i = 1 THEN [file |-> f, err |-> "IndexError"]
                    ELSE [file |-> SubSeq(f, 1, i - 2) \o SubSeq(f, i + num_of_lines, Len(f)),
                          err |-> "none"]

\* One iteration of the loop of _parse_file over a line. ps holds the loop's
\* variables: boundaries_found, new_boundary, name ("" also for None),
\* num_of_lines, cls_instance, placeholder_found, end_reached, whether the
\* loop was left by break, new_lines, boundary_dict, _file_lines and the
\* exception raised.
ParseStep(ps, line) ==
    IF ps.broke \/ ps.err # "none" THEN ps
    ELSE IF ps.end_reached THEN [ps EXCEPT !.new_lines = Append(@, line)]
    ELSE LET p1 == [ps EXCEPT !.placeholder_found = @ \/ line.k = "next"]
         IN IF ~p1.boundaries_found
            THEN [p1 EXCEPT !.boundaries_found = line.k = "bf", !.new_lines = Append(@, line)]
            ELSE IF line.k = "comment" THEN p1
            ELSE LET p2 == IF line.k = "name"
                           THEN [p1 EXCEPT !.name = IF line.n = ".*" THEN "other_boundaries"
                                                    ELSE line.n,
                                           !.new_boundary = TRUE]
                           ELSE p1
                 IN IF p2.new_boundary
                    THEN IF line.k = "close"
                         THEN [p2 EXCEPT !.new_boundary = FALSE,
                                         !.file_lines = Put(@, p2.name, p2.num_of_lines),
                                         !.boundary_dict = Put(@, p2.name, p2.cls_instance),
                                         !.name = "",
                                         !.cls_instance = NoneVariant,
                                         !.num_of_lines = 0,
                                         !.new_lines = Append(@, line)]
                         ELSE LET p3 == [p2 EXCEPT !.num_of_lines = @ + 1,
                                                   !.new_lines = Append(@, line)]
                              IN IF line.k = "type"
                                 THEN IF GetClassByBoundaryType(line.v) = ""
                                      THEN [p3 EXCEPT !.err = "ValueError"]
                                      ELSE [p3 EXCEPT !.cls_instance =
                                                [type |-> line.v, value |-> "", uniform |-> FALSE]]
                                 ELSE IF line.k = "param"
                                 THEN IF p3.cls_instance = NoneVariant
                                      THEN [p3 EXCEPT !.err = "AttributeError"]
                                      ELSE [p3 EXCEPT !.cls_instance.value = ParsedValue(line.v),
                                                      !.cls_instance.uniform = @ \/ line.u]
                                 ELSE p3
                    ELSE IF line.k = "close"
                    THEN IF ~p2.placeholder_found
                         THEN [p2 EXCEPT !.new_lines = @ \o <<NextLine, line>>,
                                         !.end_reached = TRUE]
                         ELSE [p2 EXCEPT !.broke = TRUE]
                    ELSE [p2 EXCEPT !.boundaries_found = @ \/ line.k = "bf",
                                    !.new_lines = Append(@, line)]

RECURSIVE ParseLoop(_, _)
ParseLoop(ps, f) == IF f = <<>> THEN ps ELSE ParseLoop(ParseStep(ps, Head(f)), Tail(f))

\* _parse_file(filepath, boundary_dict) with add_placeholder: the file as it
\* is afterwards, boundary_dict, _file_lines and the exception raised.
ParseFile(f, boundary_dict, fl) ==
    LET ps == ParseLoop([boundaries_found |-> FALSE, new_boundary |-> TRUE, name |-> "",
                         num_of_lines |-> 0, cls_instance |-> NoneVariant,
                         placeholder_found |-> FALSE, end_reached |-> FALSE, broke |-> FALSE,
                         new_lines |-> <<>>, boundary_dict |-> boundary_dict,
                         file_lines |-> fl, err |-> "none"], f)
    IN [file |-> IF ps.err = "none" /\ ~ps.placeholder_found THEN ps.new_lines ELSE f,
        initial |-> ps.boundary_dict, file_lines |-> ps.file_lines, err |-> ps.err]

\* The lines of BOUNDARY_CONDITION_FILE_TEMPLATE from "dimensions" on, as
\* _create_file writes them.
CreateFile ==
    <<Ln("text", "dimensions", "", FALSE, "std"), BlankLine, Ln("bf", "", "", FALSE, "std"),
      Ln("open", "", "", FALSE, "std"), NextLine, Ln("text", "#includeEtc", "", FALSE, "std"),
      Ln("close", "", "", FALSE, "std"), BlankLine, Ln("comment", "", "", FALSE, "std")>>

\* The field files a codec is constructed on: up to MaxBlocks boundary blocks
\* in boundaryField, with or without a blank line after each block, with or
\* without the placeholder, spaced as the codec writes them or otherwise.
MaxBlocks == 2
FileNames == {"inlet", "outlet"}
FileVariants ==
    {[type |-> "zeroGradient", value |-> "", uniform |-> FALSE],
     [type |-> "fixedValue", value |-> "5", uniform |-> TRUE]}

Block(n, b, sep, f) ==
    <<Ln("name", n, "", FALSE, f), Ln("open", "", "", FALSE, f), Ln("type", "", b.type, FALSE, f)>>
    \o (IF b.value # "" THEN <<Ln("param", "value", b.value, b.uniform, f)>> ELSE <<>>)
    \o <<Ln("close", "", "", FALSE, f)>>
    \o (IF sep THEN <<BlankLine>> ELSE <<>>)

BlockLists ==
    {bl \in UNION {[1..k -> FileNames \X FileVariants] : k \in 0..MaxBlocks} :
        \A i, j \in 1..Len(bl) : i # j => bl[i][1] # bl[j][1]}

OriginalFile(bl, sep, placeholder, f) ==
    <<Ln("text", "dimensions", "", FALSE, "std"), Ln("bf", "", "", FALSE, "std"),
      Ln("open", "", "", FALSE, "std")>>
    \o Flatten([i \in 1..Len(bl) |-> Block(bl[i][1], bl[i][2], sep, f)])
    \o (IF placeholder THEN <<Ln("next", "", BOUNDARY_NEXT_PLACEHOLDER, FALSE, f)>> ELSE <<>>)
    \o <<Ln("close", "", "", FALSE, "std"), Ln("comment", "", "", FALSE, "std")>>

OriginalFiles ==
    {OriginalFile(bl, sep, ph, f) :
        bl \in BlockLists, sep \in BOOLEAN, ph \in BOOLEAN, f \in {"std", "alt"}}

\* The arguments of the calls made on the codec.
CallNames == {"inlet", "outlet", "wall"}
CallArgs == {<<"zeroGradient", "">>, <<"fixedValue", "7">>, <<"fixedValue", "">>,
             <<"noSuchType", "">>}
\* No sequence of calls makes a file of these longer than 22 lines.
MaxFileLen == 22

NoBCall == [op |-> "none", name |-> "", err |-> "none"]

\* BoundaryConditionBase.__init__: the file exists and is parsed, or it does
\* not and is created from the template.
BCInit ==
    /\ attrs = EmptyMap
    /\ bcall = NoBCall
    /\ \/ \E f \in OriginalFiles :
              LET r == ParseFile(f, EmptyMap, EmptyMap)
              IN /\ r.err = "none"
                 /\ file = r.file
                 /\ initial = r.initial
                 /\ file_lines = r.file_lines
       \/ /\ file = CreateFile
          /\ initial = EmptyMap
          /\ file_lines = EmptyMap

\* add_initial_boundary(name, boundary_type, value=value)
add_initial_boundary ==
    \E name \in CallNames, args \in CallArgs :
        LET t == args[1]
            value == args[2]
            r == IF name \in DOMAIN initial
                 THEN RemoveBoundaryFromFile(file, file_lines, name)
                 ELSE [file |-> file, err |-> "none"]
            c == IF GetClassByBoundaryType(t) = ""
                 THEN [err |-> "ValueError", obj |-> NoneVariant]
                 ELSE GeneralBoundary(t, value, FALSE)
            a == IF name \in DOMAIN initial
                 THEN AddBoundaryToFile(r.file, file_lines, name, initial[name])
                 ELSE [file |-> r.file, file_lines |-> file_lines, err |-> "KeyError"]
            done == r.err = "none" /\ c.err = "none"
        IN /\ Len(a.file) <= MaxFileLen
           /\ file' = IF r.err # "none" THEN file ELSE IF c.err # "none" THEN r.file ELSE a.file
           /\ attrs' = IF done THEN Put(attrs, name, c.obj) ELSE attrs
           /\ file_lines' = IF done THEN a.file_lines ELSE file_lines
           /\ bcall' = [op |-> "add", name |-> name,
                        err |-> IF r.err # "none" THEN r.err
                                ELSE IF c.err # "none" THEN c.err ELSE a.err]
           /\ UNCHANGED <<appVars, geoVars, vtVars, bxVars, ltVars, initial>>

\* save_initial_boundary(name)
save_initial_boundary ==
    \E name \in CallNames :
        LET known == name \in DOMAIN initial
            r == IF known THEN RemoveBoundaryFromFile(file, file_lines, name)
                 ELSE [file |-> file, err |-> "Exception"]
            a == IF known /\ r.err = "none"
                 THEN AddBoundaryToFile(r.file, file_lines, name, initial[name])
                 ELSE [file |-> file, file_lines |-> file_lines, err |-> r.err]
        IN /\ Len(a.file) <= MaxFileLen
           /\ file' = a.file
           /\ file_lines' = a.file_lines
           /\ bcall' = [NoBCall EXCEPT !.op = "save", !.name = name, !.err = a.err]
           /\ UNCHANGED <<appVars, geoVars, vtVars, bxVars, ltVars, initial, attrs>>

\* delete_initial_boundary(name)
delete_initial_boundary ==
    \E name \in CallNames :
        LET r == RemoveBoundaryFromFile(file, file_lines, name)
            done == r.err = "none" /\ name \in DOMAIN attrs
        IN /\ file' = r.file
           /\ attrs' = IF done THEN Drop(attrs, name) ELSE attrs
           /\ file_lines' = IF done THEN Drop(file_lines, name) ELSE file_lines
           /\ bcall' = [NoBCall EXCEPT !.op = "delete", !.name = name,
                                       !.err = IF r.err # "none" THEN r.err
                                               ELSE IF done THEN "none" ELSE "KeyError"]
           /\ UNCHANGED <<appVars, geoVars, vtVars, bxVars, ltVars, initial>>

\* The codec on one field file; the registry is left empty.
-----------------------------------------------------------------------------
(* Construction and rendering of boundary variants (boundary_types.py). *)

\* NoObject stands for None where an object is expected.
NoObject == [None |-> "None"]
NoObjects == [x \in {} |-> NoObject]

\* A constructed object is its __dict__: attribute name -> value. Values are
\* written as Python writes them: "[1, 2, 3]" a list, "None", "True", "False".
\* A construction is called with keyword arguments kw, the set of the names
\* supplied; the value supplied under a name is KwValue(name).
KwNames ==
    {"value", "is_uniform", "phi", "outletValue", "inletValue", "tangentialVelocity",
     "volumetricFlowRate", "massFlowRate"}
KwValue(name) ==
    IF name = "is_uniform" THEN "True"
    ELSE IF name \in {"value", "outletValue", "inletValue", "tangentialVelocity"} THEN "[1, 2, 3]"
    ELSE "5"
\* The value an __init__ sees for a parameter: the argument or the default.
Arg(kw, name) ==
    IF name \in kw THEN KwValue(name) ELSE IF name = "is_uniform" THEN "False" ELSE "None"

\* The keyword parameters of the model that each class's __init__ takes.
Parameters(cls) ==
    IF cls = "GeometricBoundary" THEN {}
    ELSE IF cls = "GeneralBoundary" THEN {"value", "is_uniform"}
    ELSE IF cls = "InletBoundary"
    THEN {"value", "is_uniform", "phi", "outletValue", "volumetricFlowRate", "massFlowRate"}
    ELSE IF cls = "OutletBoundary"
    THEN {"value", "is_uniform", "phi", "inletValue", "tangentialVelocity"}
    ELSE IF cls = "WallBoundary" THEN {"value", "is_uniform", "phi"}
    ELSE {"value", "is_uniform"}

\* The types of the descriptor each class declares as its type attribute:
\* BoundaryType(boundary=...) is looked up in the registry by its boundary.
DescriptorTypes(cls) ==
    IF cls = "GeometricBoundary" THEN GEOMETRIC_BOUNDARY_TYPES
    ELSE IF cls = "GeneralBoundary" THEN GENERAL_BOUNDARY_TYPES
    ELSE IF cls = "InletBoundary" THEN INLET_BOUNDARY_TYPES
    ELSE IF cls = "OutletBoundary" THEN OUTLET_BOUNDARY_TYPES
    ELSE IF cls = "WallBoundary" THEN WALL_BOUNDARY_TYPES
    ELSE WALL_BOUNDARY_TYPES   \* CoupledBoundary: type = BoundaryType(boundary='wall')

Raised(e) == [err |-> e, obj |-> NoObject]
\* OutletBoundary stores inletValue and tangentialVelocity under other names.
OutletName(a) ==
    IF a = "inletValue" THEN "inlet_value"
    ELSE IF a = "tangentialVelocity" THEN "tangential_velocity" ELSE a
AttrName(cls, a) == IF cls = "OutletBoundary" THEN OutletName(a) ELSE a
\* An object of the class with the type and the attributes at of the
\* arguments kw, each stored under the name the class gives it.
Bound(cls, t, kw, at) ==
    [err |-> "none",
     obj |-> [k \in {"type"} \cup {AttrName(cls, a) : a \in at} |->
                 IF k = "type" THEN t ELSE Arg(kw, CHOOSE a \in at : AttrName(cls, a) = k)]]

\* An _init_..._type method that binds nothing and raises nothing.
InitTypePass(cls, t, kw) == Bound(cls, t, kw, {})

\* The _init_..._type method that __init__ of the class calls for the type.
InitType(cls, t, kw) ==
    IF cls = "GeneralBoundary" /\ t \in {"fixedValue", "calculated"}
    THEN IF "value" \in kw THEN Bound(cls, t, kw, {"value", "is_uniform"})
         ELSE Raised("ValueError")
    ELSE IF cls = "InletBoundary" /\ t = "outletInlet"
    THEN IF "outletValue" \in kw /\ "value" \in kw
         THEN Bound(cls, t, kw, {"outletValue", "value", "phi", "is_uniform"})
         ELSE Raised("ValueError")
    ELSE IF cls = "InletBoundary" /\ t = "flowRateInletVelocity"
    THEN IF "value" \in kw /\ ("volumetricFlowRate" \in kw \/ "massFlowRate" \in kw)
         THEN Bound(cls, t, kw, {"volumetricFlowRate", "massFlowRate", "value", "is_uniform"})
         ELSE Raised("ValueError")
    ELSE IF cls = "OutletBoundary" /\ t = "inletOutlet"
    THEN IF "value" \in kw /\ "inletValue" \in kw
         THEN Bound(cls, t, kw, {"value", "inletValue", "phi", "is_uniform"})
         ELSE Raised("ValueError")
    ELSE IF cls = "OutletBoundary" /\ t = "pressureInletOutletVelocity"
    THEN IF "value" \in kw /\ "tangentialVelocity" \in kw
         THEN Bound(cls, t, kw, {"value", "tangentialVelocity", "phi", "is_uniform"})
         ELSE Raised("ValueError")
    ELSE IF cls = "WallBoundary" /\ t \in {"compressible::alphatWallFunction",
                                          "compressible::epsilonWallFunction", "fixedFluxPressure"}
    THEN Bound(cls, t, kw, {"value", "is_uniform"})
    ELSE IF cls = "CoupledBoundary" /\ t = "compressible::turbulentTemperatureCoupledBaffleMixed"
    THEN Raised("ValueError")   \* neighbourFieldName, kappaMethod, kappa, Tnbr are never supplied
    ELSE Bound(cls, t, kw, {})

\* _get_class_by_boundary_type(boundary_type)(boundary_type, **kwargs)
Construct(t, kw) ==
    LET cls == GetClassByBoundaryType(t)
    IN IF cls = "" THEN Raised("ValueError")
       ELSE IF ~(kw \subseteq Parameters(cls)) THEN Raised("TypeError")
       ELSE IF t \notin DescriptorTypes(cls) THEN Raised("ValueError")
       ELSE InitType(cls, t, kw)

\* str of a list value as __str__ joins it; any other value as it is.
RenderValue(v) == IF v = "[1, 2, 3]" THEN "(1 2 3)" ELSE v

\* A rendering that puts "uniform " before the attribute value only.
StrValueOnly(obj) ==
    LET uniform == "is_uniform" \in DOMAIN obj /\ obj["is_uniform"] = "True"
        names == <<"type", "inlet_value", "massFlowRate", "outletValue", "phi",
                   "tangential_velocity", "value", "volumetricFlowRate">>
    IN Flatten([i \in 1..Len(names) |->
           IF names[i] \in DOMAIN obj /\ obj[names[i]] # "None"
           THEN <<[name |-> names[i], uniform |-> uniform /\ names[i] = "value",
                   value |-> IF obj[names[i]] = "[1, 2, 3]" THEN "(1 2 3)" ELSE obj[names[i]]]>>
           ELSE <<>>])

\* BoundaryBase.__str__: the attribute lines between the braces, type first,
\* then the other attributes in the order of dir(). A line is its name,
\* whether "uniform " is put before the value, and the value.
AttrOrder ==
    <<"inlet_value", "massFlowRate", "outletValue", "phi", "tangential_velocity", "value",
      "volumetricFlowRate">>
Str(obj) ==
    LET uniform == "is_uniform" \in DOMAIN obj /\ obj["is_uniform"] = "True"
        lineOf(name) ==
            IF name \in DOMAIN obj /\ obj[name] # "None"
            THEN <<[name |-> name,
                    uniform |-> uniform /\ name \in {"inlet_value", "outletValue", "value"},
                    value |-> RenderValue(obj[name])]>>
            ELSE <<>>
    IN lineOf("type") \o Flatten([i \in 1..Len(AttrOrder) |-> lineOf(AttrOrder[i])])

\* The type names constructions are tried with: every name of the six lists
\* and one of none.
TypeNames ==
    GEOMETRIC_BOUNDARY_TYPES \cup GENERAL_BOUNDARY_TYPES \cup INLET_BOUNDARY_TYPES
        \cup OUTLET_BOUNDARY_TYPES \cup WALL_BOUNDARY_TYPES \cup COUPLED_BOUNDARY_TYPES
        \cup {"noSuchType"}

NoCtor == [type |-> "", kw |-> {}, done |-> FALSE, err |-> "none", obj |-> NoObject, text |-> <<>>]
VtIdle == ctor = NoCtor

\* A construction and the rendering of the object it returns.
NewVariant ==
    /\ ~ctor.done
    /\ LET r == Construct(ctor.type, ctor.kw)
       IN ctor' = [ctor EXCEPT !.done = TRUE, !.err = r.err, !.obj = r.obj,
                               !.text = IF r.err = "none" THEN Str(r.obj) ELSE <<>>]
    /\ UNCHANGED <<appVars, geoVars, bcVars, ltVars, bxVars>>

-----------------------------------------------------------------------------
(* Box.create and Box.cut_surface (geometry/manipulator.py). Lengths are in *)
(* eighths: 24 is 3, 32 is 4, 20 is 2.5, 12 is 1.5, 10 is 1.25.             *)

FaceOrder == <<"bottom", "top", "front", "back", "right", "left">>

\* The corner points p1..p8 of Box.create for dimensions d and location l.
BoxPoint(i, d, l) ==
    <<l[1] + (IF i \in {2, 3, 6, 7} THEN d[1] ELSE 0),
      l[2] + (IF i \in {3, 4, 7, 8} THEN d[2] ELSE 0),
      l[3] + (IF i \in {5, 6, 7, 8} THEN d[3] ELSE 0)>>
\* The points of the lines of the loop of each face.
FacePoints(name) ==
    IF name = "bottom" THEN {1, 2, 3, 4}
    ELSE IF name = "top" THEN {5, 6, 7, 8}
    ELSE IF name = "front" THEN {1, 4, 5, 8}
    ELSE IF name = "back" THEN {2, 3, 6, 7}
    ELSE IF name = "right" THEN {1, 2, 5, 6}
    ELSE {3, 4, 7, 8}
\* get_used_coords: the sets of the x, y and z coordinates of points.
UsedCoords(ps) == <<{q[1] : q \in ps}, {q[2] : q \in ps}, {q[3] : q \in ps}>>
FaceCoords(name, d, l) == UsedCoords({BoxPoint(i, d, l) : i \in FacePoints(name)})
\* The corners of a flat surface of dimensions d at location l.
SurfacePointsAt(d, l) ==
    {<<l[1] + a * d[1], l[2] + b * d[2], l[3] + c * d[3]>> : a \in {0, 1}, b \in {0, 1}, c \in {0, 1}}

\* The attributes of class Surface that are looked up on an instance.
SurfaceAttributes == {"loops", "num", "cut", "produce", "withdraw", "rotate", "translate"}

\* Box.create: every face a Surface of one loop, named after the face.
BoxCreate == [name \in SeqSet(FaceOrder) |-> <<name>>]

\* The last face, in the order of the faces dictionary, one of whose
\* coordinate sets equals that of the surface; "" when there is none.
RECURSIVE MatchingFace(_, _, _, _, _)
MatchingFace(i, found, d, l, other) ==
    IF i > Len(FaceOrder) THEN found
    ELSE LET fc == FaceCoords(FaceOrder[i], d, l)
         IN MatchingFace(i + 1,
                         IF fc[1] = other[1] \/ fc[2] = other[2] \/ fc[3] = other[3]
                         THEN FaceOrder[i] ELSE found,
                         d, l, other)

\* The boxes and the surfaces of the model.
BoxArgs == {<<<<24, 32, 20>>, <<0, 0, 0>>>>, <<<<16, 16, 16>>, <<8, 0, 0>>>>}
SurfaceDims == {<<12, 0, 10>>, <<24, 0, 10>>, <<0, 16, 10>>, <<12, 16, 0>>, <<16, 0, 16>>}
SurfaceLocations ==
    {<<6, 0, 5>>, <<0, 0, 0>>, <<0, 8, 5>>, <<6, 8, 0>>, <<6, 32, 5>>, <<24, 8, 5>>, <<8, 0, 0>>}

NoBox == [dimensions |-> <<>>, location |-> <<>>, other |-> <<>>, faces |-> <<>>,
          done |-> FALSE, err |-> "none"]
BxIdle == box = NoBox

\* Box.cut_surface(other), other a Surface of the loop "other"
cut_surface ==
    /\ ~box.done
    /\ IF "get_used_coords" \notin SurfaceAttributes
       THEN box' = [box EXCEPT !.done = TRUE, !.err = "AttributeError"]
       ELSE LET m == MatchingFace(1, "", box.dimensions, box.location,
                                  UsedCoords(SurfacePointsAt(box.other[1], box.other[2])))
            IN IF m # ""
               THEN box' = [box EXCEPT !.done = TRUE, !.faces[m] = @ \o <<"other">>]
               ELSE box' = [box EXCEPT !.done = TRUE, !.err = "ValueError"]
    /\ UNCHANGED <<appVars, geoVars, bcVars, ltVars, vtVars>>

-----------------------------------------------------------------------------
(* The blockMesh dictionary (openfoam/system/blockmesh.py). Coordinates are *)
(* whole numbers. A block size is a whole number of thirtieths, and the one *)
(* computed from the quality is that number over QualityDen, so that 0.1 is *)
(* 3, 0.7 is 21 and every size is exact: the rounding of binary floating    *)
(* point, which can place a whole quotient just below itself, is left out.  *)

MaxMeshBlocks == 2

\* Corners handed to add_box(min_coords, max_coords).
MinCoords == {<<-1, -1, -1>>, <<0, 0, 0>>, <<1, 1, 1>>}
MaxCoords == {<<1, 1, 1>>, <<2, 2, 1>>, <<3, 2, 2>>}
Boxes == {b \in MinCoords \X MaxCoords : \A ax \in 1..3 : b[1][ax] < b[2][ax]}
\* Percentages assigned to mesh_quality.
Qualities == {0, 50, 100}
\* cells_in_direction=(10, 10, 10), the default of Block and of add_box
DefaultCells == <<10, 10, 10>>

Max2(a, b) == IF a >= b THEN a ELSE b
Min2(a, b) == IF a <= b THEN a ELSE b
\* a // b of Python for whole numbers, b not zero
FloorDiv(a, b) == IF b > 0 THEN a \div b ELSE (0 - a) \div (0 - b)

\* The x, y, z of the eight vertices v0..v7 of add_box, in that order.
BoxVertices(mn, mx) ==
    << <<mn[1], mn[2], mn[3]>>, <<mx[1], mn[2], mn[3]>>, <<mx[1], mx[2], mn[3]>>,
       <<mn[1], mx[2], mn[3]>>, <<mn[1], mn[2], mx[3]>>, <<mx[1], mn[2], mx[3]>>,
       <<mx[1], mx[2], mx[3]>>, <<mn[1], mx[2], mx[3]>> >>

\* One pass of the loop of get_dimensions over an axis: the running minimum
\* and maximum, both started at 0.
RECURSIVE MinMaxFrom(_, _, _, _, _)
MinMaxFrom(vs, ax, i, lo, hi) ==
    IF i > Len(vs) THEN <<lo, hi>>
    ELSE IF vs[i][ax] < lo THEN MinMaxFrom(vs, ax, i + 1, vs[i][ax], hi)
    ELSE IF vs[i][ax] > hi THEN MinMaxFrom(vs, ax, i + 1, lo, vs[i][ax])
    ELSE MinMaxFrom(vs, ax, i + 1, lo, hi)

\* Block.get_dimensions
get_dimensions(vs) ==
    [ax \in 1..3 |-> LET r == MinMaxFrom(vs, ax, 1, 0, 0) IN r[2] - r[1]]

\* The block sizes in the opposite order: the smallest at 0 %.
QualityValuesAscending(mesh) ==
    <<mesh._min_block_size, (mesh._min_block_size + mesh._max_block_size) \div 2,
      mesh._max_block_size>>
\* values of _calculate_quality_coefficients: the block sizes at 0, 50, 100 %
QualityValues(mesh) ==
    <<mesh._max_block_size, (mesh._min_block_size + mesh._max_block_size) \div 2,
      mesh._min_block_size>>

Percents == <<0, 50, 100>>
SumSeq(s) == s[1] + s[2] + s[3]
\* percents_sq_sum - n * percents_sum_sq, the denominator of both coefficients
QualityDen ==
    SumSeq(Percents) * SumSeq(Percents) - Len(Percents) * SumSeq([i \in 1..3 |-> Percents[i] * Percents[i]])

\* BlockMeshDict._calculate_quality_coefficients: the numerators of _quality_a
\* and _quality_b over QualityDen
calculate_quality_coefficients(mesh) ==
    LET values == QualityValues(mesh)
        sum_of_mult == SumSeq([i \in 1..3 |-> Percents[i] * values[i]])
        percents_sum_sq == SumSeq([i \in 1..3 |-> Percents[i] * Percents[i]])
        sum_percents == SumSeq(Percents)
        sum_values == SumSeq(values)
        n == Len(Percents)
    IN [mesh EXCEPT !._quality_a = sum_percents * sum_values - n * sum_of_mult,
                    !._quality_b = sum_percents * sum_of_mult - percents_sum_sq * sum_values]

\* BlockMeshDict._calculate_mesh: int(dim // self._block_size) per axis, the
\* block size being mesh._block_size / QualityDen thirtieths
calculate_mesh(mesh, vs) ==
    LET dims == get_dimensions(vs)
    IN [ax \in 1..3 |-> FloorDiv(dims[ax] * 30 * QualityDen, mesh._block_size)]

\* BlockMeshDict._calculate_mesh_quality on a valid quality: the coefficients,
\* the block size, and the cells of every block of the dictionary
calculate_mesh_quality(mesh, cls) ==
    LET m1 == calculate_quality_coefficients(mesh)
        m2 == [m1 EXCEPT !._block_size = m1._quality_a * m1._mesh_quality + m1._quality_b]
    IN [mesh |-> m2,
        cls |-> [cls EXCEPT !.cells_in_direction =
                    [i \in 1..Len(cls._vertices) |->
                        IF i \in SeqSet(m2.blocks) THEN calculate_mesh(m2, cls._vertices[i])
                        ELSE cls.cells_in_direction[i]]]]

\* BlockMeshDict.__init__ with no block: sizes 0.1 and 0.7
NewBlockMeshDict(q) ==
    calculate_mesh_quality([_mesh_quality |-> q, blocks |-> <<>>, _min_block_size |-> 3,
                            _max_block_size |-> 21, _quality_a |-> 0, _quality_b |-> 0,
                            _block_size |-> 0],
                           [_vertices |-> <<>>, cells_in_direction |-> <<>>]).mesh

\* Block(vertices, cells_in_direction, ...): __new__ finds or registers the
\* vertices, __init__ then assigns cells_in_direction on the instance
BlockCreate(cls, vs) ==
    LET idx == IndexOf(cls._vertices, vs)
    IN IF idx # 0
       THEN [cls |-> [cls EXCEPT !.cells_in_direction[idx] = DefaultCells], num |-> idx]
       ELSE [cls |-> [_vertices |-> Append(cls._vertices, vs),
                      cells_in_direction |-> Append(cls.cells_in_direction, DefaultCells)],
             num |-> Len(cls._vertices) + 1]

\* BlockMeshDict.add_box(min_coords, max_coords)
add_box ==
    \E b \in Boxes :
        LET vs == BoxVertices(b[1], b[2])
            made == BlockCreate(blocks, vs)
        IN /\ Len(blocks._vertices) < MaxMeshBlocks \/ IndexOf(blocks._vertices, vs) # 0
           /\ IF made.num \notin SeqSet(block_mesh.blocks)
              THEN LET dimensions == get_dimensions(vs)
                       maxdim == Max2(dimensions[1], Max2(dimensions[2], dimensions[3]))
                       m1 == [block_mesh EXCEPT !.blocks = Append(@, made.num),
                                                !._min_block_size = maxdim,
                                                !._max_block_size = 7 * maxdim]
                       r == calculate_mesh_quality(m1, made.cls)
                   IN /\ block_mesh' = r.mesh
                      /\ blocks' = [r.cls EXCEPT !.cells_in_direction[made.num] =
                                                    calculate_mesh(r.mesh, vs)]
              ELSE /\ blocks' = made.cls
                   /\ UNCHANGED block_mesh
           /\ UNCHANGED <<geoVars, bcVars, ltVars, vtVars, bxVars, ifVars, flVars, shVars, rmVars>>

\* BlockMeshDict.mesh_quality = q, q a percentage
set_mesh_quality ==
    \E q \in Qualities :
        LET r == calculate_mesh_quality([block_mesh EXCEPT !._mesh_quality = q], blocks)
        IN /\ block_mesh' = r.mesh
           /\ blocks' = r.cls
           /\ UNCHANGED <<geoVars, bcVars, ltVars, vtVars, bxVars, ifVars, flVars, shVars, rmVars>>

BmIdle ==
    /\ blocks = [_vertices |-> <<>>, cells_in_direction |-> <<>>]
    /\ block_mesh = NewBlockMeshDict(50)

-----------------------------------------------------------------------------
(* The OpenFOAM interface (openfoam/interface.py), the probe parser         *)
(* (openfoam/probes/probes.py) and the item assignment of a phyng            *)
(* (phyngs/base.py, objects/wopthings.py). The main thread calls run(),      *)
(* stop() and phyng[key] = value; every run() starts a solver routine, in a  *)
(* thread or, when parallel, in a process, and a parser thread. A step of a  *)
(* thread runs up to its next acquisition of a lock or its next wait.        *)

MaxRuns == 2
MaxWrites == 2

\* A lock nobody holds; a lock held is the number of the routine or parser holding it.
Free == 0

\* ProbeParser.__init__
NewParser == [pc |-> "new", running |-> FALSE, _mutex |-> Free]

\* OpenFoamInterface.__init__: no solver yet, the lock free, a parser that is
\* never started
NewInterface(blocking, parallel) ==
    [blocking |-> blocking, parallel |-> parallel, running |-> FALSE, _solver |-> 0,
     _solver_process |-> 0, _solver_mutex |-> Free, _probe_parser |-> 1]

NoMainCall == [pc |-> "idle", op |-> "none", err |-> "none", last |-> "none",
               case_was_stopped |-> FALSE, runs |-> 0]

\* A solver routine has ended: it returned, it raised, or its process was killed.
Ended(s) == s.pc \in {"done", "failed", "terminated"}

\* start_solving, and the construction and start of the parser, of run()
StartSolving(itf) ==
    [itf EXCEPT !.running = TRUE,
                !._solver_process = IF itf.parallel THEN Len(solvers) + 1 ELSE @,
                !._probe_parser = Len(parsers) + 1]

\* OpenFoamInterface.run up to its wait for the solver lock
RunBegin(op) ==
    /\ interface' = StartSolving(interface)
    /\ solvers' = Append(solvers, [pc |-> "created", process |-> interface.parallel, stop |-> FALSE])
    /\ parsers' = Append(parsers, [NewParser EXCEPT !.pc = "created"])
    /\ main' = [main EXCEPT !.runs = @ + 1, !.op = op,
                            !.pc = IF interface.blocking THEN "run_wait" ELSE "idle",
                            !.last = IF interface.blocking THEN @ ELSE op,
                            !.err = "none"]

\* the main thread calls run()
run ==
    /\ main.pc = "idle"
    /\ main.runs < MaxRuns
    /\ RunBegin("run")
    /\ UNCHANGED <<phyng, probes>>
    /\ UNCHANGED <<geoVars, bcVars, ltVars, vtVars, bxVars, bmVars, flVars, shVars, rmVars>>

\* run() with the blocking flag: _solver_mutex.acquire(); release()
run_return ==
    /\ main.pc = "run_wait"
    /\ interface._solver_mutex = Free
    /\ main' = [main EXCEPT !.pc = "idle", !.last = main.op]
    /\ UNCHANGED <<interface, solvers, parsers, phyng, probes>>
    /\ UNCHANGED <<geoVars, bcVars, ltVars, vtVars, bxVars, bmVars, flVars, shVars, rmVars>>

\* OpenFoamInterface.stop up to the wait of ProbeParser.stop for the parser's lock
StopBegin(op, stopped) ==
    /\ parsers' = [parsers EXCEPT ![interface._probe_parser].running = FALSE]
    /\ main' = [main EXCEPT !.pc = "stop_parser", !.op = op, !.err = "none",
                            !.case_was_stopped = stopped]

\* the main thread calls stop()
stop ==
    /\ main.pc = "idle"
    /\ StopBegin("stop", FALSE)
    /\ UNCHANGED <<interface, solvers, phyng, probes>>
    /\ UNCHANGED <<geoVars, bcVars, ltVars, vtVars, bxVars, bmVars, flVars, shVars, rmVars>>

\* The end of ProbeParser.stop and stop_solving up to its wait for the solver
\* lock: the process is terminated, or the runner in _solver is told to stop;
\* None in their place raises AttributeError.
stop_solving ==
    /\ main.pc = "stop_parser"
    /\ parsers[interface._probe_parser]._mutex = Free
    /\ LET target == IF interface.parallel THEN interface._solver_process ELSE interface._solver
       IN IF target = 0
          THEN /\ main' = [main EXCEPT !.pc = "idle", !.err = "AttributeError", !.last = main.op]
               /\ UNCHANGED <<interface, solvers>>
          ELSE /\ solvers' = [solvers EXCEPT ![target] =
                                 IF interface.parallel
                                 THEN [@ EXCEPT !.pc = "terminated"]
                                 ELSE [@ EXCEPT !.stop = TRUE]]
               /\ interface' = [interface EXCEPT !.running = FALSE]
               /\ main' = [main EXCEPT !.pc = "stop_solver"]
    /\ UNCHANGED <<parsers, phyng, probes>>
    /\ UNCHANGED <<geoVars, bcVars, ltVars, vtVars, bxVars, bmVars, flVars, shVars, rmVars>>

\* setattr(self, key, value) of a phyng: the attribute and the boundary files
\* behind it are written; whether a solver routine had not ended is noted
SetAttr(ph) ==
    [ph EXCEPT !.value = @ + 1,
               !.written_beside_solver = \E i \in 1..Len(solvers) : ~Ended(solvers[i])]

\* The end of stop_solving: _solver_mutex.acquire(); release(). In an item
\* assignment the reconstruction, the setattr and run() follow; the call of
\* run_reconstruct(..., waiting=True) of Phyng names a parameter that
\* run_reconstruct does not have.
stop_return ==
    /\ main.pc = "stop_solver"
    /\ interface._solver_mutex = Free
    /\ IF main.op = "stop"
       THEN /\ main' = [main EXCEPT !.pc = "idle", !.last = "stop"]
            /\ UNCHANGED <<interface, solvers, parsers, phyng>>
       ELSE IF interface.parallel /\ phyng.cls = "Phyng"
       THEN /\ main' = [main EXCEPT !.pc = "idle", !.last = "setitem", !.err = "TypeError"]
            /\ UNCHANGED <<interface, solvers, parsers, phyng>>
       ELSE /\ phyng' = SetAttr(phyng)
            /\ RunBegin("setitem")
    /\ UNCHANGED probes
    /\ UNCHANGED <<geoVars, bcVars, ltVars, vtVars, bxVars, bmVars, flVars, shVars, rmVars>>

\* Phyng.__setitem__ and WopObject.__setitem__ up to the first wait
setitem ==
    /\ main.pc = "idle"
    /\ main.runs < MaxRuns
    /\ phyng.value < MaxWrites
    /\ IF interface.running /\ phyng._fields
       THEN /\ StopBegin("setitem", TRUE)
            /\ UNCHANGED <<phyng, interface>>
       ELSE /\ phyng' = SetAttr(phyng)
            /\ main' = [main EXCEPT !.op = "setitem", !.last = "setitem", !.err = "none",
                                    !.case_was_stopped = FALSE]
            /\ UNCHANGED <<parsers, interface>>
    /\ UNCHANGED <<solvers, probes>>
    /\ UNCHANGED <<geoVars, bcVars, ltVars, vtVars, bxVars, bmVars, flVars, shVars, rmVars>>

\* run_solver and run_solver_parallel up to the return of BasicRunner.start:
\* the lock is acquired and the runner stored in _solver. In a process both
\* are the copies of the process.
solver_start ==
    \E i \in 1..Len(solvers) :
        /\ solvers[i].pc = "created"
        /\ solvers[i].process \/ interface._solver_mutex = Free
        /\ solvers' = [solvers EXCEPT ![i].pc = "solving"]
        /\ interface' = IF solvers[i].process THEN interface
                        ELSE [interface EXCEPT !._solver_mutex = i, !._solver = i]
        /\ UNCHANGED <<parsers, main, phyng, probes>>
        /\ UNCHANGED <<geoVars, bcVars, ltVars, vtVars, bxVars, bmVars, flVars, shVars, rmVars>>

\* The solver ends, of itself or on the request to stop, and the routine after
\* BasicRunner.start: run_solver releases the lock when runOK() and raises
\* without releasing it otherwise; a process ends with its copies.
solver_end ==
    \E i \in 1..Len(solvers) : \E runOK \in BOOLEAN :
        /\ solvers[i].pc = "solving"
        /\ solvers' = [solvers EXCEPT ![i].pc = IF runOK \/ solvers[i].process THEN "done" ELSE "failed"]
        /\ interface' = IF ~solvers[i].process /\ runOK
                        THEN [interface EXCEPT !._solver_mutex = Free]
                        ELSE interface
        /\ UNCHANGED <<parsers, main, phyng, probes>>
        /\ UNCHANGED <<geoVars, bcVars, ltVars, vtVars, bxVars, bmVars, flVars, shVars, rmVars>>

\* ProbeParser.run up to the acquisition of its lock: nothing without probes,
\* else running = True and remove_unused
parser_begin ==
    \E j \in 1..Len(parsers) :
        /\ parsers[j].pc = "created"
        /\ parsers' = [parsers EXCEPT ![j] = IF probes THEN [@ EXCEPT !.pc = "flagged", !.running = TRUE]
                                             ELSE [@ EXCEPT !.pc = "done"]]
        /\ UNCHANGED <<interface, solvers, main, phyng, probes>>
        /\ UNCHANGED <<geoVars, bcVars, ltVars, vtVars, bxVars, bmVars, flVars, shVars, rmVars>>

\* ProbeParser.run: self._mutex.acquire() and the entry of the parsing loop
parser_acquire ==
    \E j \in 1..Len(parsers) :
        /\ parsers[j].pc = "flagged"
        /\ parsers[j]._mutex = Free
        /\ parsers' = [parsers EXCEPT ![j].pc = "loop", ![j]._mutex = j]
        /\ UNCHANGED <<interface, solvers, main, phyng, probes>>
        /\ UNCHANGED <<geoVars, bcVars, ltVars, vtVars, bxVars, bmVars, flVars, shVars, rmVars>>

\* ProbeParser.run: the loop finds running False and the lock is released
parser_exit ==
    \E j \in 1..Len(parsers) :
        /\ parsers[j].pc = "loop"
        /\ ~parsers[j].running
        /\ parsers' = [parsers EXCEPT ![j].pc = "done", ![j]._mutex = Free]
        /\ UNCHANGED <<interface, solvers, main, phyng, probes>>
        /\ UNCHANGED <<geoVars, bcVars, ltVars, vtVars, bxVars, bmVars, flVars, shVars, rmVars>>

IfIdle ==
    /\ interface = NewInterface(TRUE, FALSE)
    /\ solvers = <<>>
    /\ parsers = <<NewParser>>
    /\ main = NoMainCall
    /\ phyng = [cls |-> "Phyng", _fields |-> FALSE, value |-> 0, written_beside_solver |-> FALSE]
    /\ probes = FALSE

\* The second object: the lines of its file, its initial map, its boundary
\* attributes and the exception of the last call made on it.
NoOther == [file |-> <<>>, initial |-> EmptyMap, attrs |-> EmptyMap, err |-> "none"]

FlIdle == other_bc = NoOther

-----------------------------------------------------------------------------
(* Box.create and the surface of Model._create_geometry_from_type on the    *)
(* registry (geometry/manipulator.py): the points, lines, loops and surfaces *)
(* they construct, in the order of the code.                                 *)

MaxShapes == 3

\* The registry: the class attributes and the instances of the four classes.
Registry ==
    [Point |-> Point, points |-> points, Line |-> Line, lines |-> lines,
     Loop |-> Loop, loops |-> loops, Surface |-> Surface, surfaces |-> surfaces]

\* The value of a one-element set
Only(S) == CHOOSE v \in S : TRUE

\* Point(x, y, z) for every coordinate triple of cs; ids are the instances.
RECURSIVE MakePoints(_, _, _)
MakePoints(reg, cs, ids) ==
    IF cs = <<>> THEN [reg |-> reg, ids |-> ids]
    ELSE Only({Only({MakePoints(a[1], a[2], a[3]) :
                     a \in {<<[reg EXCEPT !.Point = r.cls, !.points = r.insts], Tail(cs),
                              Append(ids, r.ret)>>}}) :
               r \in {PointCreate(reg.Point, reg.points, Head(cs))}})

\* Line(p, q) for every pair of pairs.
RECURSIVE MakeLines(_, _, _)
MakeLines(reg, pairs, ids) ==
    IF pairs = <<>> THEN [reg |-> reg, ids |-> ids]
    ELSE Only({Only({MakeLines(a[1], a[2], a[3]) :
                     a \in {<<[reg EXCEPT !.Line = r.cls, !.lines = r.insts], Tail(pairs),
                              Append(ids, r.ret)>>}}) :
               r \in {LineCreate(reg.Line, reg.lines, Head(pairs)[1], Head(pairs)[2])}})

\* Surface(Loop([l1, -l2, ...])) for every list of sls: the negations, the
\* loop, the surface.
RECURSIVE MakeFaces(_, _, _)
MakeFaces(reg, sls, ids) ==
    IF sls = <<>> THEN [reg |-> reg, ids |-> ids]
    ELSE Only({Only({Only({MakeFaces(a[1], a[2], a[3]) :
                           a \in {<<[reg EXCEPT !.Loop = lo.cls, !.loops = lo.insts,
                                                !.lines = lo.lineinsts,
                                                !.Surface = su.cls, !.surfaces = su.insts],
                                    Tail(sls), Append(ids, lo.ret)>>}}) :
                     su \in {SurfaceCreate(reg.Surface, reg.surfaces, lo.ret)}}) :
               lo \in {LoopCreate(reg.Loop, reg.loops, NegateAll(reg.lines, Head(sls)),
                                  [i \in 1..Len(Head(sls)) |-> Head(sls)[i][1]])}})

\* l1..l12 of Box.create on the points p1..p8
BoxLines(p) ==
    << <<p[1], p[2]>>, <<p[2], p[3]>>, <<p[4], p[3]>>, <<p[1], p[4]>>,
       <<p[5], p[6]>>, <<p[6], p[7]>>, <<p[8], p[7]>>, <<p[5], p[8]>>,
       <<p[1], p[5]>>, <<p[2], p[6]>>, <<p[3], p[7]>>, <<p[4], p[8]>> >>

\* ll1..ll6 of Box.create on the lines l1..l12: the line and whether negated
BoxLoops(n) ==
    << << <<n[1], FALSE>>, <<n[2], FALSE>>, <<n[3], TRUE>>, <<n[4], TRUE>> >>,
       << <<n[8], FALSE>>, <<n[7], FALSE>>, <<n[6], TRUE>>, <<n[5], TRUE>> >>,
       << <<n[4], FALSE>>, <<n[12], FALSE>>, <<n[8], TRUE>>, <<n[9], TRUE>> >>,
       << <<n[10], FALSE>>, <<n[6], FALSE>>, <<n[11], TRUE>>, <<n[2], TRUE>> >>,
       << <<n[9], FALSE>>, <<n[5], FALSE>>, <<n[10], TRUE>>, <<n[1], TRUE>> >>,
       << <<n[3], FALSE>>, <<n[11], FALSE>>, <<n[7], TRUE>>, <<n[12], TRUE>> >> >>

\* Box.create(dimensions, location): p1..p8, l1..l12, ll1..ll6 and the faces
BoxOnRegistry(reg, d, l) ==
    Only({Only({MakeFaces(ls.reg, BoxLoops(ls.ids), <<>>) :
                ls \in {MakeLines(ps.reg, BoxLines(ps.ids), <<>>)}}) :
          ps \in {MakePoints(reg, [i \in 1..8 |-> BoxPoint(i, d, l)], <<>>)}})

\* p1..p4 of a surface: in the plane of the dimension that is zero
SurfaceCorners(d, l) ==
    IF d[1] = 0
    THEN <<l, <<l[1], l[2], l[3] + d[3]>>, <<l[1], l[2] + d[2], l[3] + d[3]>>,
           <<l[1], l[2] + d[2], l[3]>> >>
    ELSE IF d[2] = 0
    THEN <<l, <<l[1] + d[1], l[2], l[3]>>, <<l[1] + d[1], l[2], l[3] + d[3]>>,
           <<l[1], l[2], l[3] + d[3]>> >>
    ELSE <<l, <<l[1], l[2] + d[2], l[3]>>, <<l[1] + d[1], l[2] + d[2], l[3]>>,
           <<l[1] + d[1], l[2], l[3]>> >>

\* Loop([l1, l2, l3, l4]) if facing_zero else Loop([-l4, -l3, -l2, -l1])
SurfaceLoops(n, facing_zero) ==
    IF facing_zero
    THEN << << <<n[1], FALSE>>, <<n[2], FALSE>>, <<n[3], FALSE>>, <<n[4], FALSE>> >> >>
    ELSE << << <<n[4], TRUE>>, <<n[3], TRUE>>, <<n[2], TRUE>>, <<n[1], TRUE>> >> >>

\* The surface of Model(name, 'surface', dimensions, location, facing_zero),
\* not rotated: p1..p4, l1..l4, the loop and the surface
SurfaceOnRegistry(reg, d, l, facing_zero) ==
    Only({Only({MakeFaces(ls.reg, SurfaceLoops(ls.ids, facing_zero), <<>>) :
                ls \in {MakeLines(ps.reg, << <<ps.ids[1], ps.ids[2]>>, <<ps.ids[2], ps.ids[3]>>,
                                             <<ps.ids[3], ps.ids[4]>>, <<ps.ids[4], ps.ids[1]>> >>,
                                  <<>>)}}) :
          ps \in {MakePoints(reg, SurfaceCorners(d, l), <<>>)}})

\* The boxes and the surfaces constructed: dimensions and location.
ShapeBoxes == {<<<<2, 2, 2>>, <<0, 0, 0>>>>, <<<<1, 2, 2>>, <<2, 0, 0>>>>}
ShapeSurfaces == {<<<<2, 0, 2>>, <<0, 0, 0>>>>, <<<<0, 1, 1>>, <<2, 0, 0>>>>, <<<<1, 1, 0>>, <<3, 3, 3>>>>}

SetRegistry(reg) ==
    /\ Point' = reg.Point /\ points' = reg.points
    /\ Line' = reg.Line /\ lines' = reg.lines
    /\ Loop' = reg.Loop /\ loops' = reg.loops
    /\ Surface' = reg.Surface /\ surfaces' = reg.surfaces

\* Model(name, 'box', dimensions, location): Box(dimensions, location)
create_box ==
    \E b \in ShapeBoxes :
        \E r \in {BoxOnRegistry(Registry, b[1], b[2])} :
           /\ Len(shapes) < MaxShapes
           /\ SetRegistry(r.reg)
           /\ shapes' = Append(shapes, [type |-> "box", loops |-> r.ids])
           /\ UNCHANGED <<moves, call, bcVars, ltVars, vtVars, bxVars, bmVars, ifVars, flVars, rmVars>>

\* Model(name, 'surface', dimensions, location, facing_zero=facing_zero)
create_surface ==
    \E b \in ShapeSurfaces, facing_zero \in BOOLEAN :
        \E r \in {SurfaceOnRegistry(Registry, b[1], b[2], facing_zero)} :
           /\ Len(shapes) < MaxShapes
           /\ SetRegistry(r.reg)
           /\ shapes' = Append(shapes, [type |-> "surface", loops |-> r.ids])
           /\ UNCHANGED <<moves, call, bcVars, ltVars, vtVars, bxVars, bmVars, ifVars, flVars, rmVars>>

ShIdle == shapes = <<>>

-----------------------------------------------------------------------------
(* The conjugate heat transfer case (case_base.py, cht_room.py): the objects *)
(* of the case, the initialized flag and the starts of the solver. The       *)
(* holes are the loops that cuts have added to the faces of the walls, per   *)
(* object cut. unset and added_only are history: unset says that an object   *)
(* or a parameter has changed since setup last completed, added_only that    *)
(* nothing but add_object has been called.                                   *)

MaxStarts == 2

\* The objects of main(), and a second window: name and type
ObjectTypes ==
    [walls |-> "walls", inlet |-> "window", vent |-> "window", outlet |-> "door",
     heater |-> "heater", temp_sensor |-> "sensor"]
ObjectNames == DOMAIN ObjectTypes
\* Case parameters assigned through case[key] = value
CaseKeys == {"mesh_quality", "clean_limit", "end_time"}

NoHoles == [n \in ObjectNames |-> 0]
NewRoom ==
    [initialized |-> FALSE, walls |-> FALSE, heaters |-> {}, windows |-> {}, doors |-> {},
     sensors |-> {}, objects |-> {}, holes |-> NoHoles, err |-> "none",
     unset |-> FALSE, added_only |-> TRUE, starts |-> 0]

\* self.walls.model.geometry.cut_surface(other): Box.cut_surface asks the
\* surface for get_used_coords; the matching face gets the loop of other
CutSurface(holes, n) ==
    IF "get_used_coords" \notin SurfaceAttributes
    THEN [err |-> "AttributeError", holes |-> holes]
    ELSE [err |-> "none", holes |-> [holes EXCEPT ![n] = @ + 1]]

\* for o in objs.values(): geometry.cut_surface(o.model.geometry)
RECURSIVE CutEach(_, _)
CutEach(r, objs) ==
    IF objs = {} \/ r.err # "none" THEN r
    ELSE LET n == CHOOSE n \in objs : TRUE
         IN CutEach(CutSurface(r.holes, n), objs \ {n})

\* The end of ChtRoom.add_object: initialized = False, objects.update
Registered(r, name) ==
    [r EXCEPT !.initialized = FALSE, !.objects = @ \cup {name}, !.unset = TRUE]

\* ChtRoom.add_object(name, obj_type, ...) on the case r
AddObject(r, name) ==
    LET type == ObjectTypes[name]
    IN IF type = "heater"
       THEN Registered([r EXCEPT !.heaters = @ \cup {name}], name)
       ELSE IF type \in {"window", "door"}
       THEN LET a == IF type = "window" THEN [r EXCEPT !.windows = @ \cup {name}, !.unset = TRUE]
                     ELSE [r EXCEPT !.doors = @ \cup {name}, !.unset = TRUE]
                c == IF a.walls THEN CutSurface(a.holes, name)
                     ELSE [err |-> "none", holes |-> a.holes]
            IN IF c.err # "none" THEN [a EXCEPT !.err = c.err]
               ELSE Registered([a EXCEPT !.holes = c.holes], name)
       ELSE IF type = "walls"
       THEN LET a == [r EXCEPT !.walls = TRUE, !.unset = TRUE]
                \* the windows, and the windows once more under the name door
                c == CutEach(CutEach([err |-> "none", holes |-> NoHoles], a.windows), a.windows)
            IN IF c.err # "none" THEN [a EXCEPT !.err = c.err, !.holes = c.holes]
               ELSE Registered([a EXCEPT !.holes = c.holes], name)
       ELSE [r EXCEPT !.sensors = @ \cup {name}, !.initialized = FALSE, !.unset = TRUE]

\* ChtRoom.remove_object(object_name) on the case r
RemoveObject(r, name) ==
    LET type == ObjectTypes[name]
    IN IF name \notin r.objects \cup r.sensors THEN [r EXCEPT !.err = "ObjectNotFound"]
       ELSE IF type = "sensor"
       THEN [r EXCEPT !.sensors = @ \ {name}, !.initialized = FALSE, !.unset = TRUE]
       ELSE LET a == [r EXCEPT !.objects = @ \ {name}, !.initialized = FALSE, !.unset = TRUE]
            IN IF type = "heater" THEN [a EXCEPT !.heaters = @ \ {name}]
               ELSE IF type = "window" THEN [a EXCEPT !.windows = @ \ {name}]
               ELSE IF type = "door" THEN [a EXCEPT !.doors = @ \ {name}]
               \* del self['walls'][name]: the room object has no such attribute
               ELSE [a EXCEPT !.err = "KeyError"]

\* room.add_object(name, obj_type, ...)
room_add_object ==
    \E name \in ObjectNames :
        /\ room' = AddObject([room EXCEPT !.err = "none"], name)
        /\ UNCHANGED <<geoVars, bcVars, ltVars, vtVars, bxVars, bmVars, ifVars, flVars, shVars>>

\* room.remove_object(object_name)
room_remove_object ==
    \E name \in ObjectNames :
        /\ room' = [RemoveObject([room EXCEPT !.err = "none"], name) EXCEPT !.added_only = FALSE]
        /\ UNCHANGED <<geoVars, bcVars, ltVars, vtVars, bxVars, bmVars, ifVars, flVars, shVars>>

\* room.modify_object(object_name, params) with a geometric parameter in
\* params: stop, initialized = False, the object removed and added anew
room_modify_object ==
    \E name \in ObjectNames :
        LET a == [room EXCEPT !.err = "none", !.initialized = FALSE, !.added_only = FALSE]
            b == RemoveObject(a, name)
        IN /\ room' = IF b.err # "none" THEN b ELSE AddObject(b, name)
           /\ UNCHANGED <<geoVars, bcVars, ltVars, vtVars, bxVars, bmVars, ifVars, flVars, shVars>>

\* room[key] = value
room_setitem ==
    \E key \in CaseKeys :
        /\ room' = IF key # "clean_limit"
                   THEN [room EXCEPT !.err = "none", !.initialized = FALSE, !.unset = TRUE,
                                     !.added_only = FALSE]
                   ELSE [room EXCEPT !.err = "none", !.added_only = FALSE]
        /\ UNCHANGED <<geoVars, bcVars, ltVars, vtVars, bxVars, bmVars, ifVars, flVars, shVars>>

\* ChtRoom.setup(): the geometry, the meshes and the boundary conditions, then
\* initialized = True; ok is whether every step went through
Setup(r, ok) ==
    IF ok THEN [r EXCEPT !.initialized = TRUE, !.unset = FALSE]
    ELSE [r EXCEPT !.err = "Exception"]

\* room.setup()
room_setup ==
    \E ok \in BOOLEAN :
        /\ room' = [Setup([room EXCEPT !.err = "none"], ok) EXCEPT !.added_only = FALSE]
        /\ UNCHANGED <<geoVars, bcVars, ltVars, vtVars, bxVars, bmVars, ifVars, flVars, shVars>>

\* room.run(): clean_case and setup if not initialized, then the run of the
\* interface, which starts the solver
room_run ==
    \E ok \in BOOLEAN :
        LET a == [room EXCEPT !.err = "none", !.added_only = FALSE]
            b == IF a.initialized THEN a ELSE Setup(a, ok)
        IN /\ room.starts < MaxStarts
           /\ room' = IF b.err # "none" THEN b ELSE [b EXCEPT !.starts = @ + 1]
           /\ UNCHANGED <<geoVars, bcVars, ltVars, vtVars, bxVars, bmVars, ifVars, flVars, shVars>>

RmIdle == room = NewRoom

AppIdle == BmIdle /\ IfIdle /\ FlIdle /\ ShIdle /\ RmIdle

-----------------------------------------------------------------------------
(* The latest snapshot: update_latest_boundaries, save_latest_boundaries. *)

\* The time steps asked for, and the attribute that no block of a result file
\* of the model holds.
TimeSteps == {5, 7}
NoPath == -1
MaxEdits == 2
ExtraAttr == "inletValue"

\* What the parser leaves in boundary_dict for a block: type, the attributes
\* of the parameter lines, is_uniform only when a line carried "uniform".
ObjectOf(b) ==
    IF b = NoneVariant THEN NoObject
    ELSE [k \in {"type"} \cup (IF b.value # "" THEN {"value"} ELSE {})
                         \cup (IF b.uniform THEN {"is_uniform"} ELSE {}) |->
             IF k = "type" THEN b.type ELSE IF k = "value" THEN b.value ELSE "True"]

\* What GeneralBoundary(boundary_type, value, is_uniform) leaves in __dict__.
ConstructedObject(b) ==
    IF b.type = "fixedValue"
    THEN [k \in {"type", "value", "is_uniform"} |->
             IF k = "type" THEN b.type ELSE IF k = "value" THEN b.value
             ELSE IF b.uniform THEN "True" ELSE "False"]
    ELSE [k \in {"type"} |-> b.type]

\* The attribute names of the model that contain "value" or "gradient".
ValueLike(n) == n \in {"value", "inletValue"}

\* str.isnumeric of a value token: digits only.
IsNumeric(tok) == tok \in {"3", "5", "7"}

\* The result-time files: blocks of an OpenFOAM-written file, no placeholder.
ResultFiles == {OriginalFile(bl, FALSE, FALSE, "alt") : bl \in BlockLists}

\* One iteration of the loop of _save_latest_boundaries over a line. idx is
\* always the index of the line just appended to new_lines, so an insert at
\* idx goes before that line, a pop at idx removes it. sv holds new_lines,
\* current_boundary, read_attr, boundaries_found, end_reached and the
\* exception raised.
SaveLatestStep(sv, line, lt) ==
    IF sv.err # "none" THEN sv
    ELSE LET s1 == [sv EXCEPT !.new_lines = Append(@, line)]
             n == Len(s1.new_lines)
         IN IF s1.end_reached THEN s1
            ELSE IF ~s1.boundaries_found THEN [s1 EXCEPT !.boundaries_found = line.k = "bf"]
            ELSE IF line.k = "name" /\ (IF line.n = ".*" THEN "other_boundaries" ELSE line.n) \notin DOMAIN lt
            THEN [s1 EXCEPT !.err = "KeyError"]
            ELSE LET s2 == IF line.k = "name"
                           THEN [s1 EXCEPT !.current_boundary =
                                    lt[IF line.n = ".*" THEN "other_boundaries" ELSE line.n]]
                           ELSE s1
                     cur == s2.current_boundary
                 IN IF cur # NoObject
                    THEN IF line.k = "close"
                         THEN LET remaining_attr == (DOMAIN cur \ s2.read_attr)
                                                        \ {"type", "is_uniform", "value"}
                                  ins == IF ExtraAttr \in remaining_attr
                                         THEN <<Ln("param", ExtraAttr, cur[ExtraAttr], FALSE, "alt")>>
                                         ELSE <<>>
                              IN [s2 EXCEPT !.new_lines = SubSeq(@, 1, n - 1) \o ins \o <<line>>,
                                            !.current_boundary = NoObject,
                                            !.read_attr = {}]
                         ELSE IF line.k = "type"
                         THEN IF "type" \in DOMAIN cur
                              THEN [s2 EXCEPT !.new_lines[n].v = cur["type"]]
                              ELSE [s2 EXCEPT !.err = "KeyError"]
                         ELSE IF line.k = "param"
                         THEN IF line.n \in DOMAIN cur
                              THEN LET prefix ==
                                           /\ "is_uniform" \in DOMAIN cur /\ cur["is_uniform"] = "True"
                                           /\ line.n # "value"
                                           /\ ValueLike(line.n)
                                           /\ IsNumeric(line.v)
                                   IN [s2 EXCEPT !.read_attr = @ \cup {line.n},
                                                 !.new_lines[n].v = cur[line.n],
                                                 !.new_lines[n].u = prefix]
                              ELSE [s2 EXCEPT !.new_lines = SubSeq(@, 1, n - 1)]
                         ELSE s2
                    ELSE IF line.k = "close" THEN [s2 EXCEPT !.end_reached = TRUE]
                    ELSE [s2 EXCEPT !.boundaries_found = @ \/ line.k = "bf"]

RECURSIVE SaveLatestLoop(_, _, _)
SaveLatestLoop(sv, f, lt) ==
    IF f = <<>> THEN sv ELSE SaveLatestLoop(SaveLatestStep(sv, Head(f), lt), Tail(f), lt)

\* _save_latest_boundaries on the lines f of an existing file: the lines
\* written (f itself when an exception is raised before the write).
SaveLatestBoundaries(f, lt) ==
    LET sv == SaveLatestLoop([new_lines |-> <<>>, current_boundary |-> NoObject, read_attr |-> {},
                              boundaries_found |-> FALSE, end_reached |-> FALSE, err |-> "none"],
                             f, lt)
    IN [file |-> IF sv.err = "none" THEN sv.new_lines ELSE f, err |-> sv.err]

\* update_latest_boundaries(latest_timestep), not parallel
update_latest_boundaries ==
    \E ts \in TimeSteps :
        /\ latest_timestep' = ts
        /\ filepath_latest' = ts
        /\ IF results[ts] # <<>>
           THEN LET r == ParseFile(results[ts], EmptyMap, file_lines)
                IN /\ latest' = [x \in DOMAIN latest \cup DOMAIN r.initial |->
                                    IF x \in DOMAIN r.initial THEN ObjectOf(r.initial[x])
                                    ELSE latest[x]]
                   /\ file_lines' = r.file_lines
                   /\ bcall' = [op |-> "update_latest", name |-> "", err |-> r.err]
           ELSE /\ UNCHANGED <<latest, file_lines>>
                /\ bcall' = [op |-> "update_latest", name |-> "", err |-> "none"]
        /\ UNCHANGED <<appVars, geoVars, vtVars, bxVars, file, initial, attrs, results, edits>>

\* save_latest_boundaries(), not parallel
save_latest_boundaries ==
    /\ IF filepath_latest \in TimeSteps /\ results[filepath_latest] # <<>>
       THEN LET r == SaveLatestBoundaries(results[filepath_latest], latest)
            IN /\ results' = [results EXCEPT ![filepath_latest] = r.file]
               /\ bcall' = [op |-> "save_latest", name |-> "", err |-> r.err]
       ELSE /\ UNCHANGED results
            /\ bcall' = [op |-> "save_latest", name |-> "", err |-> "none"]
    /\ UNCHANGED <<appVars, geoVars, vtVars, bxVars, file, initial, attrs, file_lines, latest, latest_timestep,
                   filepath_latest, edits>>

\* The caller's edits of the public latest map between update and save:
\* latest[name][key] = value (BoundaryBase.__setitem__) ...
SetLatestItem ==
    \E name \in DOMAIN latest, kv \in {<<"value", "7">>, <<ExtraAttr, "3">>} :
        /\ edits < MaxEdits
        /\ edits' = edits + 1
        /\ latest[name] # NoObject
        /\ latest' = [latest EXCEPT ![name] =
                         [k \in DOMAIN @ \cup {kv[1]} |-> IF k = kv[1] THEN kv[2] ELSE @[k]]]
        /\ bcall' = [op |-> "set", name |-> name, err |-> "none"]
        /\ UNCHANGED <<appVars, geoVars, vtVars, bxVars, file, initial, attrs, file_lines, latest_timestep, filepath_latest,
                       results>>

\* ... and latest[name] = GeneralBoundary(...), a newly constructed variant.
ReplaceLatest ==
    \E name \in DOMAIN latest, b \in FileVariants :
        /\ edits < MaxEdits
        /\ edits' = edits + 1
        /\ latest' = [latest EXCEPT ![name] = ConstructedObject(b)]
        /\ bcall' = [op |-> "replace", name |-> name, err |-> "none"]
        /\ UNCHANGED <<appVars, geoVars, vtVars, bxVars, file, initial, attrs, file_lines, latest_timestep, filepath_latest,
                       results>>

\* No latest snapshot: the state __init__ leaves, and no result-time file.
LtIdle ==
    /\ latest = NoObjects
    /\ latest_timestep = 0
    /\ filepath_latest = NoPath
    /\ results = [ts \in TimeSteps |-> <<>>]
    /\ edits = 0

\* A codec constructed on a case without the field file, with a result-time
\* file of time step 5 and, so far, none of time step 7.
LatestInit ==
    /\ GeoStart
    /\ file = CreateFile
    /\ initial = EmptyMap
    /\ attrs = EmptyMap
    /\ file_lines = EmptyMap
    /\ bcall = NoBCall
    /\ latest = NoObjects
    /\ latest_timestep = 0
    /\ filepath_latest = NoPath
    /\ edits = 0
    /\ VtIdle /\ BxIdle /\ AppIdle
    /\ results \in {[ts \in TimeSteps |-> IF ts = 5 THEN f ELSE <<>>] : f \in ResultFiles}

LatestNext ==
    \/ update_latest_boundaries
    \/ save_latest_boundaries
    \/ SetLatestItem
    \/ ReplaceLatest

LatestSpec == LatestInit /\ [][LatestNext]_vars

-----------------------------------------------------------------------------
(* Two codec objects: the one of the field file of `file` and another one   *)
(* on a second field file. _file_lines is an attribute of the class          *)
(* BoundaryConditionBase that every object updates in place.                 *)

\* The boundary that both field files and the result-time file hold.
SharedNames == {"inlet"}
SharedBlocks == {b \in BlockLists : Len(b) = 1 /\ b[1][1] \in SharedNames}
\* The field files of a case: one boundary block each, the placeholder kept.
FieldFiles == {OriginalFile(bl, TRUE, TRUE, "std") : bl \in SharedBlocks}

\* delete_initial_boundary(name) on the second object
delete_other_boundary ==
    \E name \in SharedNames :
        LET r == RemoveBoundaryFromFile(other_bc.file, file_lines, name)
            done == r.err = "none" /\ name \in DOMAIN other_bc.attrs
        IN /\ other_bc.err = "none"
           /\ other_bc' = [other_bc EXCEPT !.file = r.file,
                                     !.attrs = IF done THEN Drop(@, name) ELSE @,
                                     !.err = IF r.err # "none" THEN r.err
                                             ELSE IF done THEN "none" ELSE "KeyError"]
           /\ file_lines' = IF done THEN Drop(file_lines, name) ELSE file_lines
           /\ bcall' = [NoBCall EXCEPT !.op = "delete_other", !.name = name]
           /\ UNCHANGED <<geoVars, ltVars, vtVars, bxVars, bmVars, ifVars, shVars, rmVars, file, initial, attrs>>

BCSpecInit == GeoStart /\ BCInit /\ LtIdle /\ AppIdle /\ VtIdle /\ BxIdle

BCNext ==
    \/ add_initial_boundary
    \/ save_initial_boundary
    \/ delete_initial_boundary

BCSpec == BCSpecInit /\ [][BCNext]_vars

\* BoundaryConditionBase(case_dir, ...): a codec object is constructed on the
\* field file. An existing file is parsed into a fresh initial dictionary
\* (_file_lines is a class attribute and keeps its entries); a missing file,
\* for which the empty sequence stands, is created from the template.
NewBoundaryCondition ==
    /\ IF file # <<>>
       THEN LET r == ParseFile(file, EmptyMap, file_lines)
            IN /\ file' = r.file
               /\ initial' = r.initial
               /\ file_lines' = r.file_lines
               /\ bcall' = [op |-> "init", name |-> "", err |-> r.err]
       ELSE /\ file' = CreateFile
            /\ initial' = EmptyMap
            /\ file_lines' = file_lines
            /\ bcall' = [op |-> "init", name |-> "", err |-> "none"]
    /\ attrs' = EmptyMap
    /\ UNCHANGED <<appVars, geoVars, vtVars, bxVars, ltVars>>

\* Construction of codec objects on the field files, existing or not.
ParseInit ==
    /\ GeoStart
    /\ file \in OriginalFiles \cup {<<>>}
    /\ initial = EmptyMap
    /\ attrs = EmptyMap
    /\ file_lines = EmptyMap
    /\ bcall = NoBCall
    /\ LtIdle /\ AppIdle /\ VtIdle /\ BxIdle

ParseNext ==
    \/ NewBoundaryCondition

ParseSpec == ParseInit /\ [][ParseNext]_vars

\* The codec plays no part in the registry's state machines.
BCIdle ==
    /\ file = <<>>
    /\ initial = EmptyMap
    /\ attrs = EmptyMap
    /\ file_lines = EmptyMap
    /\ bcall = NoBCall

\* Points: construction, repeated construction, rotation and translation.
PointsInit == GeoStart /\ BCIdle /\ LtIdle /\ AppIdle /\ VtIdle /\ BxIdle

PointsNext ==
    \/ NewPoint
    \/ MovePoint

PointsSpec == PointsInit /\ [][PointsNext]_vars

\* Points and lines: construction and repeated construction.
LinesInit == GeoStart /\ BCIdle /\ LtIdle /\ AppIdle /\ VtIdle /\ BxIdle

LinesNext ==
    \/ NewPoint
    \/ NewLine

LinesSpec == LinesInit /\ [][LinesNext]_vars

\* Loops, surfaces and their transforms, over a chain of two lines on three
\* points. The registry starts in the state that Point(0, 0, 0), Point(1, 0, 0),
\* Point(1, 1, 0), Line(p1, p2), Line(p2, p3) leave behind.
ChainPoints ==
    LET a == PointCreate([locations |-> <<>>, numbers |-> <<>>, current_number |-> 0,
                          inst_number |-> 0], <<>>, <<0, 0, 0>>)
        b == PointCreate(a.cls, a.insts, <<1, 0, 0>>)
    IN PointCreate(b.cls, b.insts, <<1, 1, 0>>)

ChainLines ==
    LET a == LineCreate([point_pairs |-> <<>>, numbers |-> <<>>, current_number |-> 0,
                         inst_number |-> 0, inverse |-> FALSE], <<>>, 1, 2)
    IN LineCreate(a.cls, a.insts, 2, 3)

ShapesInit ==
    /\ Point = ChainPoints.cls
    /\ points = ChainPoints.insts
    /\ Line = ChainLines.cls
    /\ lines = ChainLines.insts
    /\ Loop = [lines |-> <<>>, numbers |-> <<>>, current_number |-> 0, inst_number |-> 0]
    /\ loops = <<>>
    /\ Surface = [loops |-> <<>>, numbers |-> <<>>, current_number |-> 0, inst_number |-> 0]
    /\ surfaces = <<>>
    /\ moves = 0
    /\ call = NoCall
    /\ BCIdle
    /\ LtIdle /\ AppIdle /\ VtIdle /\ BxIdle

ShapesNext ==
    \/ NewLoop
    \/ NewSurface
    \/ Cut
    \/ MoveLine
    \/ MoveLoop
    \/ MoveSurface
    \/ MoveTriSurface

ShapesSpec == ShapesInit /\ [][ShapesNext]_vars

\* Constructions of variants: every type name with every set of arguments.
VariantInit ==
    /\ GeoStart /\ BCIdle /\ LtIdle /\ AppIdle
    /\ BxIdle
    /\ ctor \in {[NoCtor EXCEPT !.type = t, !.kw = kw] : t \in TypeNames, kw \in SUBSET KwNames}

VariantNext ==
    \/ NewVariant

VariantSpec == VariantInit /\ [][VariantNext]_vars

\* Box(dimensions, location) and a surface Model(dimensions, location).
BoxInit ==
    /\ GeoStart /\ BCIdle /\ LtIdle /\ AppIdle
    /\ VtIdle
    /\ box \in {[NoBox EXCEPT !.dimensions = a[1], !.location = a[2], !.other = <<sd, sl>>,
                              !.faces = BoxCreate] :
                   a \in BoxArgs, sd \in SurfaceDims, sl \in SurfaceLocations}

BoxNext ==
    \/ cut_surface

BoxSpec == BoxInit /\ [][BoxNext]_vars

\* A dictionary of quality 50 %, boxes added and qualities assigned.
MeshInit ==
    /\ GeoStart /\ BCIdle /\ LtIdle /\ VtIdle /\ BxIdle
    /\ BmIdle /\ IfIdle /\ FlIdle /\ ShIdle /\ RmIdle

MeshNext ==
    \/ add_box
    \/ set_mesh_quality

MeshSpec == MeshInit /\ [][MeshNext]_vars

\* Boxes and surfaces constructed one after another on an empty registry.
ContourInit ==
    /\ GeoStart /\ BCIdle /\ LtIdle /\ VtIdle /\ BxIdle /\ BmIdle /\ IfIdle /\ FlIdle
    /\ ShIdle /\ RmIdle

ContourNext ==
    \/ create_box
    \/ create_surface

ContourSpec == ContourInit /\ [][ContourNext]_vars

\* A new case: objects added, removed and modified, parameters assigned, the
\* case set up and run.
CaseInit ==
    /\ GeoStart /\ BCIdle /\ LtIdle /\ VtIdle /\ BxIdle /\ BmIdle /\ IfIdle /\ FlIdle
    /\ ShIdle /\ RmIdle

CaseNext ==
    \/ room_add_object
    \/ room_remove_object
    \/ room_modify_object
    \/ room_setitem
    \/ room_setup
    \/ room_run

CaseSpec == CaseInit /\ [][CaseNext]_vars

\* extract_boundary_conditions constructs the object of one field file, then
\* the one of another; a result-time file of the first field exists.
FilesInit ==
    /\ GeoStart /\ VtIdle /\ BxIdle /\ BmIdle /\ IfIdle /\ ShIdle /\ RmIdle
    /\ attrs = EmptyMap
    /\ bcall = NoBCall
    /\ latest = NoObjects
    /\ latest_timestep = 0
    /\ filepath_latest = NoPath
    /\ edits = 0
    /\ results \in {[ts \in TimeSteps |-> IF ts = 5 THEN f ELSE <<>>] :
                      f \in {OriginalFile(bl, FALSE, FALSE, "alt") : bl \in SharedBlocks}}
    /\ \E f1 \in FieldFiles, f2 \in FieldFiles :
          LET r1 == ParseFile(f1, EmptyMap, EmptyMap)
              r2 == ParseFile(f2, EmptyMap, r1.file_lines)
          IN /\ file = r1.file
             /\ initial = r1.initial
             /\ other_bc = [NoOther EXCEPT !.file = r2.file, !.initial = r2.initial]
             /\ file_lines = r2.file_lines

\* The calls on the first object that name the boundary both files hold.
add_first_boundary == add_initial_boundary /\ bcall'.name \in SharedNames
save_first_boundary == save_initial_boundary /\ bcall'.name \in SharedNames
delete_first_boundary == delete_initial_boundary /\ bcall'.name \in SharedNames

FilesNext ==
    \/ add_first_boundary
    \/ save_first_boundary
    \/ delete_first_boundary
    \/ update_latest_boundaries
    \/ delete_other_boundary

FilesSpec == FilesInit /\ [][FilesNext]_vars

\* An interface, blocking or not, parallel or not, with or without probes, and
\* a phyng of either base class, with or without monitored fields.
InterfaceInit ==
    /\ GeoStart /\ BCIdle /\ LtIdle /\ VtIdle /\ BxIdle /\ BmIdle /\ FlIdle /\ ShIdle /\ RmIdle
    /\ interface \in {NewInterface(b, p) : b \in BOOLEAN, p \in BOOLEAN}
    /\ solvers = <<>>
    /\ parsers = <<NewParser>>
    /\ main = NoMainCall
    /\ phyng \in {[cls |-> c, _fields |-> f, value |-> 0, written_beside_solver |-> FALSE] :
                    c \in {"Phyng", "WopObject"}, f \in BOOLEAN}
    /\ probes \in BOOLEAN

InterfaceNext ==
    \/ run
    \/ run_return
    \/ stop
    \/ stop_solving
    \/ stop_return
    \/ setitem
    \/ solver_start
    \/ solver_end
    \/ parser_begin
    \/ parser_acquire
    \/ parser_exit

InterfaceSpec == InterfaceInit /\ [][InterfaceNext]_vars

\* The threads are scheduled and a solver ends: a step of a thread that stays
\* possible is taken. The main thread is free not to call anything.
InterfaceFairSpec ==
    /\ InterfaceSpec
    /\ WF_vars(run_return) /\ WF_vars(stop_solving) /\ WF_vars(stop_return)
    /\ WF_vars(solver_start) /\ WF_vars(solver_end)
    /\ WF_vars(parser_begin) /\ WF_vars(parser_acquire) /\ WF_vars(parser_exit)

-----------------------------------------------------------------------------
(* Properties of the registry. *)

\* C1: constructing a point at the coordinates of a registered point returns
\* that point, and the point then still carries the tag it was given when it
\* was first created (the tag the class recorded for it in _numbers).
C1_SamePointSameTag ==
    call.op = "Point" =>
        /\ \A i \in 1..Len(points) : points[i].coords = call.arg => i = call.ret
        /\ call.hit => points[call.ret].num = Point.numbers[call.ret]

\* C2: tags only grow and no two distinct registered entities of the same kind
\* (points, lines, loops, surfaces) carry the same tag.
C2_TagsUnique ==
    /\ \A i, j \in 1..Len(points) : i # j => points[i].num # points[j].num
    /\ \A i, j \in 1..Len(lines) : i # j => lines[i].num # lines[j].num
    /\ \A i, j \in 1..Len(loops) : i # j => loops[i].num # loops[j].num
    /\ \A i, j \in 1..Len(surfaces) : i # j => surfaces[i].num # surfaces[j].num

\* The lines registered between the points p and q, in either order.
Connecting(p, q) ==
    {i \in 1..Len(Line.point_pairs) : Line.point_pairs[i] \in {<<p, q>>, <<q, p>>}}

\* C3: Line(p, q) for two points that a line already connects returns that line,
\* in either order of the points, creates no line and no tag, and the call
\* records the direction as reversed exactly when <<p, q>> is the reverse of the
\* stored order.
C3_ExistingLineDirection ==
    [][(call'.op = "Line" /\ Connecting(call'.arg[1], call'.arg[2]) # {}) =>
          /\ call'.ret \in Connecting(call'.arg[1], call'.arg[2])
          /\ Len(lines') = Len(lines)
          /\ Line'.current_number = Line.current_number
          /\ call'.inverse <=>
                 Line.point_pairs[call'.ret] = <<call'.arg[2], call'.arg[1]>>]_vars

\* The points reachable from the entity a transform was called on.
ReachedPoints(tg) ==
    CASE tg[1] = "Point" -> {tg[2]}
      [] tg[1] = "Line" -> SeqSet(LinePoints(tg[2]))
      [] tg[1] = "Loop" -> SeqSet(LoopPoints(tg[2]))
      [] tg[1] = "Surface" -> SeqSet(SurfacePoints(tg[2]))
      [] tg[1] = "TriSurface" ->
             UNION {SeqSet(SurfacePoints(tg[2][i])) : i \in 1..Len(tg[2])}

\* The coordinates v after the transform t has been applied to them once.
MovedOnce(v, t) ==
    IF t.kind = "rotate" THEN RotatedCoords(v, t.r, t.c) ELSE TranslatedCoords(v, t.d)

\* C4: one rotate or translate call on a line, loop, surface or triangulated
\* shape applies the transform exactly once to every point reachable from it.
C4_TransformOnce ==
    [][(call'.op \in {"rotate", "translate"} /\ moves' = moves + 1 /\ call'.err = "none") =>
          \A p \in ReachedPoints(call'.target) :
              points'[p].coords = MovedOnce(points[p].coords, call'.arg)]_vars

\* C5: after a rotate or translate of a point, the entry of the coordinate
\* index (_locations) for that point equals the point's current coordinates.
C5_IndexFollowsPoint ==
    (call.op \in {"rotate", "translate"} /\ call.target[1] = "Point") =>
        Point.locations[call.target[2]] = points[call.target[2]].coords

\* The signed line numbers a list expression [l1, -l2, ...] denotes.
SignedNumbers(sl) ==
    [i \in 1..Len(sl) |-> IF sl[i][2] THEN -lines[sl[i][1]].num ELSE lines[sl[i][1]].num]

\* C6: Loop(lines) returns an existing loop only when that loop has the same
\* lines in the same order with the same signs; any other request makes a new
\* loop with a new tag.
C6_LoopIdentitySigned ==
    [][call'.op = "Loop" =>
          LET same == {i \in 1..Len(loops) : loops[i].line_sequence = SignedNumbers(call'.arg)}
          IN IF same # {}
             THEN call'.ret \in same /\ loops' = loops
             ELSE /\ call'.ret = Len(loops) + 1
                  /\ \A i \in 1..Len(loops) : loops'[call'.ret].num # loops[i].num]_vars

-----------------------------------------------------------------------------
(* Properties of the codec. *)

IsNotBlank(l) == l.k # "blank"
\* A file without its blank lines.
NoBlanks(f) == SelectSeq(f, IsNotBlank)

HasBlock(f, name) == \E i \in 1..Len(f) : f[i].k = "name" /\ f[i].n = name

\* The file f without the block of a name: its name line through the next
\* closing brace.
WithoutBlock(f, name) ==
    IF ~HasBlock(f, name) THEN f
    ELSE LET i == CHOOSE i \in 1..Len(f) :
                      /\ f[i].k = "name" /\ f[i].n = name
                      /\ \A j \in 1..(i - 1) : ~(f[j].k = "name" /\ f[j].n = name)
             e == CHOOSE e \in i..Len(f) :
                      f[e].k = "close" /\ \A j \in i..(e - 1) : f[j].k # "close"
         IN SubSeq(f, 1, i - 1) \o SubSeq(f, e + 1, Len(f))

\* The file f with a block put immediately before its placeholder line.
InsertBeforeNext(f, block) ==
    LET k == CHOOSE k \in 1..Len(f) : f[k].k = "next" /\ \A j \in 1..(k - 1) : f[j].k # "next"
    IN SubSeq(f, 1, k - 1) \o block \o SubSeq(f, k, Len(f))

\* C7: after add_initial_boundary(name, type, attributes) succeeds, the file is
\* its prior content with the existing block of the name removed and the block
\* of the newly constructed boundary put immediately before the placeholder;
\* every other line is unchanged. (Blank lines are left out of the comparison.)
C7_AddWritesNewBlock ==
    [][(bcall'.op = "add" /\ bcall'.err = "none") =>
          NoBlanks(file') =
              NoBlanks(InsertBeforeNext(WithoutBlock(file, bcall'.name),
                                        Render(bcall'.name, attrs'[bcall'.name])))]_vars

\* C8: removing a boundary deletes from the file the lines of that boundary's
\* block and no line of another block, of the placeholder or of boundaryField
\* itself, for a boundary recorded by the parse (the first block included) as
\* for one recorded by an add. (Blank lines are left out of the comparison.)
C8_RemoveDeletesOwnBlock ==
    [][(bcall'.op = "delete" /\ file' # file) =>
          NoBlanks(file') = NoBlanks(WithoutBlock(file, bcall'.name))]_vars

\* C9: after a call that succeeded, a name is a key of initial exactly when the
\* file holds a block for it; after a successful add initial[name] is the boundary that add constructed,
\* after a successful delete the name is no key of initial.
C9_InitialMatchesFile ==
    /\ bcall.err = "none" => \A n \in CallNames : n \in DOMAIN initial <=> HasBlock(file, n)
    /\ (bcall.op = "add" /\ bcall.err = "none") =>
           /\ bcall.name \in DOMAIN initial
           /\ initial[bcall.name] = attrs[bcall.name]
    /\ (bcall.op = "delete" /\ bcall.err = "none") => bcall.name \notin DOMAIN initial

\* The boundaries a caller can have constructed.
Constructed == {GeneralBoundary(a[1], a[2], FALSE).obj : a \in CallArgs} \ {NoneVariant}

\* C10: on a file that carries the placeholder, writing the block of a boundary
\* with _add_boundary_to_file and then removing it with
\* _remove_boundary_from_file gives back the file as it was before, whatever
\* line precedes the placeholder.
C10_AddThenRemoveRestores ==
    \A name \in CallNames, b \in Constructed :
        ((\E i \in 1..Len(file) : file[i].k = "next") /\ ~HasBlock(file, name)) =>
            LET a == AddBoundaryToFile(file, file_lines, name, b)
            IN RemoveBoundaryFromFile(a.file, a.file_lines, name) = [file |-> file, err |-> "none"]

HasNext(f) == \E i \in 1..Len(f) : f[i].k = "next"

\* The number of opening minus closing braces among the lines i..j of f.
RECURSIVE Depth(_, _, _)
Depth(f, i, j) ==
    IF i > j THEN 0
    ELSE Depth(f, i, j - 1) + (IF f[j].k = "open" THEN 1 ELSE IF f[j].k = "close" THEN -1 ELSE 0)

\* The line that closes the boundaryField block of f.
ClosingBrace(f) ==
    LET b == CHOOSE b \in 1..Len(f) : f[b].k = "bf"
    IN CHOOSE e \in (b + 1)..Len(f) :
           /\ f[e].k = "close" /\ Depth(f, b, e) = 0
           /\ \A j \in (b + 1)..(e - 1) : ~(f[j].k = "close" /\ Depth(f, b, j) = 0)

\* C11: parsing an existing file that has no placeholder rewrites it as its
\* lines, all kept and in order, plus one placeholder line immediately before
\* the closing brace of boundaryField; parsing a file that has the placeholder
\* leaves the file as it is.
C11_ParseInsertsPlaceholder ==
    [][(bcall'.op = "init" /\ file # <<>>) =>
          IF HasNext(file) THEN file' = file
          ELSE LET e == ClosingBrace(file)
               IN file' = SubSeq(file, 1, e - 1) \o <<NextLine>> \o SubSeq(file, e, Len(file))]_vars

\* The number of placeholder lines of f.
NextCount(f) == Cardinality({i \in 1..Len(f) : f[i].k = "next"})

\* C12: a file that holds exactly one placeholder line, as a created or parsed
\* file does, still holds exactly one after any add, remove or save.
C12_OnePlaceholderKept ==
    [][NextCount(file) = 1 => NextCount(file') = 1]_vars

\* C13: when add_initial_boundary or save_initial_boundary fails because the
\* placeholder is not found, the type name is unknown or a required attribute
\* is missing, the file is as it was before the call.
C13_FailedPatchWritesNothing ==
    [][(bcall'.op \in {"add", "save"} /\ bcall'.err \in {"Exception", "ValueError"}) =>
          file' = file]_vars

\* C14: saving a boundary of a freshly parsed file, with nothing changed in
\* memory since the parse, leaves the file as the parse left it.
C14_SaveAfterParseKeepsFile ==
    [][(bcall = NoBCall /\ bcall'.op = "save" /\ bcall'.name \in DOMAIN initial) =>
          file' = file]_vars

\* The attribute names of the parameter lines of the block of a name in the
\* lines f: from the name line to the first closing brace after it.
BlockAttrs(f, name) ==
    {f[j].n : j \in {j \in 1..Len(f) :
        /\ f[j].k = "param"
        /\ \E i \in 1..(j - 1) :
              /\ f[i].k = "name" /\ f[i].n = name
              /\ \A m \in i..j : f[m].k # "close"}}
BlockNames(f) == {f[i].n : i \in {i \in 1..Len(f) : f[i].k = "name"}}

\* C15: after save_latest_boundaries has rewritten the result-time file, every
\* block holds a line for each attribute its variant has in memory (those
\* that were absent were inserted) and no line for any other attribute (those
\* were deleted).
C15_SaveLatestWritesMemory ==
    [][(bcall'.op = "save_latest" /\ bcall'.err = "none" /\ filepath_latest \in TimeSteps) =>
          \A name \in BlockNames(results'[filepath_latest]) \cap DOMAIN latest :
              latest[name] # NoObject =>
                  BlockAttrs(results'[filepath_latest], name)
                      = DOMAIN latest[name] \ {"type", "is_uniform"}]_vars

\* C16: update_latest_boundaries for a time step without a result-time file
\* raises nothing, writes no file and leaves latest, latest_timestep and the
\* path that save_latest_boundaries writes to as they were.
C16_MissingResultIsNoOp ==
    [][\A ts \in TimeSteps :
          (bcall'.op = "update_latest" /\ latest_timestep' = ts /\ results[ts] = <<>>) =>
              /\ bcall'.err = "none"
              /\ results' = results
              /\ latest' = latest
              /\ latest_timestep' = latest_timestep
              /\ filepath_latest' = filepath_latest]_vars
-----------------------------------------------------------------------------
(* Properties of the construction and rendering of variants. *)

ClosedTypeNames ==
    GEOMETRIC_BOUNDARY_TYPES \cup GENERAL_BOUNDARY_TYPES \cup INLET_BOUNDARY_TYPES
        \cup OUTLET_BOUNDARY_TYPES \cup WALL_BOUNDARY_TYPES \cup COUPLED_BOUNDARY_TYPES
\* An attribute the type requires is not among the arguments kw.
MissingRequired(t, kw) ==
    \/ t = "outletInlet" /\ ~({"outletValue", "value"} \subseteq kw)
    \/ t = "inletOutlet" /\ ~({"value", "inletValue"} \subseteq kw)
    \/ t = "pressureInletOutletVelocity" /\ ~({"value", "tangentialVelocity"} \subseteq kw)
    \/ t \in {"fixedValue", "calculated"} /\ "value" \notin kw
    \/ t = "flowRateInletVelocity"
          /\ ("value" \notin kw \/ ("volumetricFlowRate" \notin kw /\ "massFlowRate" \notin kw))

WithContract ==
    {"fixedValue", "calculated", "outletInlet", "flowRateInletVelocity", "inletOutlet",
     "pressureInletOutletVelocity", "compressible::alphatWallFunction",
     "compressible::epsilonWallFunction", "fixedFluxPressure",
     "compressible::turbulentTemperatureCoupledBaffleMixed"}

\* C18: every type name of the six lists is accepted when the attributes it
\* requires are supplied (and no argument its class does not take), and a
\* type name without an attribute contract gives an object that holds its
\* type only.
C18_EveryTypeAccepted ==
    (/\ ctor.done
     /\ ctor.type \in ClosedTypeNames \ {"compressible::turbulentTemperatureCoupledBaffleMixed"}
     /\ ~MissingRequired(ctor.type, ctor.kw)
     /\ ctor.kw \subseteq Parameters(GetClassByBoundaryType(ctor.type)))
        => /\ ctor.err = "none"
           /\ ctor.type \notin WithContract => DOMAIN ctor.obj = {"type"}

\* The rendered line of an attribute: <<"uniform " put before, value>>.
LineOf(name) ==
    {<<ctor.text[i].uniform, ctor.text[i].value>> :
        i \in {i \in 1..Len(ctor.text) : ctor.text[i].name = name}}
OutletInletExample ==
    /\ ctor.done /\ ctor.type = "outletInlet"
    /\ ctor.kw = {"outletValue", "value", "is_uniform"}

\* C19 as stated: outletInlet with outletValue=[1,2,3], value=[1,2,3] and
\* is_uniform=True renders "outletValue (1 2 3);" without the word uniform,
\* "value uniform (1 2 3);" and no line for phi, which was not supplied.
C19_OutletValueWithoutUniform ==
    OutletInletExample =>
        /\ LineOf("outletValue") = {<<FALSE, "(1 2 3)">>}
        /\ LineOf("value") = {<<TRUE, "(1 2 3)">>}
        /\ LineOf("phi") = {}

\* C19, amended: the same construction renders "outletValue uniform (1 2 3);"
\* and "value uniform (1 2 3);", both with the word uniform, after the type
\* line, and no line for phi.
C19_BothValuesUniform ==
    OutletInletExample =>
        /\ ctor.err = "none"
        /\ LineOf("outletValue") = {<<TRUE, "(1 2 3)">>}
        /\ LineOf("value") = {<<TRUE, "(1 2 3)">>}
        /\ {ctor.text[i].name : i \in 1..Len(ctor.text)} = {"type", "outletValue", "value"}
C19_Witness == OutletInletExample /\ ctor.err = "none" /\ Len(ctor.text) = 3

-----------------------------------------------------------------------------
(* Properties of the box. *)

\* The surface to cut lies in the plane of the face: one coordinate has a
\* single value on the face and the same single value on the surface.
InFacePlane(name) ==
    LET fc == FaceCoords(name, box.dimensions, box.location)
        oc == UsedCoords(SurfacePointsAt(box.other[1], box.other[2]))
    IN \E a \in 1..3 : Cardinality(fc[a]) = 1 /\ oc[a] = fc[a]
BoxExample ==
    /\ box.dimensions = <<24, 32, 20>> /\ box.location = <<0, 0, 0>>
    /\ box.other = <<<<12, 0, 10>>, <<6, 0, 5>>>>

\* C20: cutting a surface that lies in the plane of a face adds its loop to
\* exactly one face, one whose plane holds the surface, and leaves the loops
\* of the other five faces as they were; for the 3 x 4 x 2.5 box at the origin
\* and the 1.5 x 0 x 1.25 surface at (0.75, 0, 0.625) that face is front or
\* back.
C20_CutAddsToOneFace ==
    (box.done /\ \E name \in DOMAIN box.faces : InFacePlane(name)) =>
        \E m \in DOMAIN box.faces :
            /\ box.faces[m] = <<m, "other">>
            /\ \A n \in DOMAIN box.faces \ {m} : box.faces[n] = <<n>>
            /\ InFacePlane(m)
            /\ BoxExample => m \in {"front", "back"}


-----------------------------------------------------------------------------
(* Properties of the blockMesh dictionary. *)

\* The largest minus the smallest coordinate of the vertices on an axis.
Extent(vs, ax) ==
    LET cs == {vs[i][ax] : i \in 1..Len(vs)}
    IN (CHOOSE hi \in cs : \A c \in cs : c <= hi) - (CHOOSE lo \in cs : \A c \in cs : lo <= c)

\* The block size at quality q between 0.7 * maxdim / 3 at 0 % and
\* 0.1 * maxdim / 3 at 100 %, in three-thousandths.
SizeBetween(maxdim, q) == 700 * maxdim - 6 * maxdim * q

\* C21: every block of the dictionary has on each axis floor(extent / block
\* size) cells, the extent being the largest minus the smallest vertex
\* coordinate on the axis and the block size the one of the current quality
\* between the sizes derived from the largest extent of the block added last.
C21_CellsFollowExtent ==
    \A i \in 1..Len(block_mesh.blocks) :
        LET vs == blocks._vertices[block_mesh.blocks[i]]
            last == blocks._vertices[block_mesh.blocks[Len(block_mesh.blocks)]]
            maxdim == Max2(Extent(last, 1), Max2(Extent(last, 2), Extent(last, 3)))
        IN \A ax \in 1..3 :
            blocks.cells_in_direction[block_mesh.blocks[i]][ax] =
                (Extent(vs, ax) * 3000) \div SizeBetween(maxdim, block_mesh._mesh_quality)

\* The cells of a block at quality q, the sizes of the dictionary kept.
CellsAt(q, vs) ==
    calculate_mesh(calculate_mesh_quality([block_mesh EXCEPT !._mesh_quality = q], blocks).mesh, vs)

\* C22: for every block of the dictionary and every axis, the cells at
\* quality 100 are at least the cells at quality 50, and these at least the
\* cells at quality 0.
C22_MoreQualityMoreCells ==
    \A i \in 1..Len(block_mesh.blocks) : \A ax \in 1..3 :
        LET vs == blocks._vertices[block_mesh.blocks[i]]
        IN /\ CellsAt(100, vs)[ax] >= CellsAt(50, vs)[ax]
           /\ CellsAt(50, vs)[ax] >= CellsAt(0, vs)[ax]

\* Two blocks, the quality assigned 100: the cells stored are those of
\* quality 100 and more than those of quality 0.
C22_Witness ==
    /\ Len(block_mesh.blocks) = 2
    /\ block_mesh._mesh_quality = 100
    /\ \A i \in 1..2 : \A ax \in 1..3 :
          LET vs == blocks._vertices[block_mesh.blocks[i]]
          IN /\ blocks.cells_in_direction[block_mesh.blocks[i]][ax] = CellsAt(100, vs)[ax]
             /\ CellsAt(100, vs)[ax] > CellsAt(0, vs)[ax]

-----------------------------------------------------------------------------
(* Properties of the interface, the probe parser and the item assignment. *)

\* C23: an item assignment that found the solver running with monitored
\* fields ends with the attribute written while no solver routine was under
\* way, without an exception, and with the solver running again.
C23_StoppedWrittenRestarted ==
    (main.pc = "idle" /\ main.last = "setitem" /\ main.case_was_stopped) =>
        /\ main.err = "none"
        /\ ~phyng.written_beside_solver
        /\ interface.running

\* C26: a solver routine that has ended does not keep the solver lock: from
\* every state where it has ended a state follows where it does not hold it.
C26_EndedRoutineReleases ==
    \A i \in 1..MaxRuns :
        (i <= Len(solvers) /\ Ended(solvers[i])) ~> (interface._solver_mutex # i)

\* C27: when run() of a blocking interface has returned, the solver routine
\* started by this call has ended.
C27_BlockingRunWaits ==
    (interface.blocking /\ main.pc = "idle" /\ main.last = "run") =>
        Ended(solvers[Len(solvers)])

\* C28: once stop() has returned, the parser thread started by the run()
\* before it has left ProbeParser.run, or leaves it with no further call of
\* the main thread.
C28_StopReachesParser ==
    (main.pc = "idle" /\ main.last = "stop" /\ main.err = "none"
        /\ parsers[interface._probe_parser].pc # "new")
    ~> (parsers[interface._probe_parser].pc = "done" \/ main.pc # "idle")

-----------------------------------------------------------------------------
(* Properties of two codec objects. *)

\* C24: a call on the first object (parsing a result-time file, adding,
\* saving or deleting a boundary in its field file) leaves, for every
\* boundary the file of the second object holds, the number of lines that a
\* later removal from that file deletes as it was.
C24_OtherRangesKept ==
    [][other_bc' = other_bc =>
          \A n \in SharedNames :
              (HasBlock(other_bc.file, n) /\ n \in DOMAIN file_lines) =>
                  (n \in DOMAIN file_lines' /\ file_lines'[n] = file_lines[n])]_vars

-----------------------------------------------------------------------------
(* Properties of the loops of boxes and surfaces. *)

\* The points a signed line number runs from and to: those of the line of
\* this number, in the stored order for a positive number.
LineWithNum(n) == CHOOSE i \in 1..Len(lines) : lines[i].num = (IF n < 0 THEN 0 - n ELSE n)
StartOf(n) == lines[LineWithNum(n)].points[IF n < 0 THEN 2 ELSE 1]
EndOf(n) == lines[LineWithNum(n)].points[IF n < 0 THEN 1 ELSE 2]
IsClosed(seq) ==
    \A k \in 1..Len(seq) : EndOf(seq[k]) = StartOf(seq[IF k = Len(seq) THEN 1 ELSE k + 1])

\* C25: every loop constructed for a box or a surface is a closed contour: the
\* end of each signed line is the start of the next, the last one's the start
\* of the first.
C25_LoopsAreClosed ==
    \A s \in 1..Len(shapes) : \A i \in 1..Len(shapes[s].loops) :
        IsClosed(loops[shapes[s].loops[i]].line_sequence)

-----------------------------------------------------------------------------
(* Properties of the case. *)

\* C29: whenever run() starts the solver, setup has completed since the last
\* addition, removal or geometric modification of an object and since the
\* last assignment of a case parameter other than clean_limit.
C29_StartedOnSetUpCase ==
    [][room'.starts > room.starts => ~room'.unset]_vars

\* C30: after add_object calls alone, once the walls are there, the faces of
\* the walls hold exactly one hole loop for each window and each door.
C30_OneHolePerOpening ==
    (room.added_only /\ room.walls) =>
        \A n \in ObjectNames :
            room.holes[n] = (IF n \in room.windows \cup room.doors THEN 1 ELSE 0)

=============================================================================
